---- MODULE Spec2Model ----
(***************************************************************************)
(* Project-to-GCS path reconciliation (ProjectGCSMapper), with the parts   *)
(* of the migration around it that read or report its mapping: the         *)
(* configuration loader, the document URL updater, the table migrator and  *)
(* its retry queue, and the mapping analysis of the command line.          *)
(*                                                                         *)
(* Strings are TLA+ strings, taken apart and put together character by     *)
(* character with Head, Tail, SubSeq, Len and \o, so that formatting,      *)
(* sanitizing, de-duplication by string equality and prefix listing are    *)
(* computed as the code computes them.  An Optional[T] value is a set with *)
(* at most one element: None is {} and a present value x is {x}.           *)
(***************************************************************************)
EXTENDS Naturals, Integers, Sequences, FiniteSets, TLC

VARIABLES
    store,                          \* the bucket: the set of object keys it holds
    project_path_map,               \* self.project_path_map
    projects,                       \* argument of the running / last call
    doc_records,                    \* argument of the running / last call
    docs_with_filenames_by_project, \* local of build_project_mapping
    idx,                            \* position of "for project in projects"
    pc,                             \* "idle" | "loop" | "returned"
    log,                            \* store requests issued by the current call, in order
    calls,                          \* number of build_project_mapping calls on this mapper
    workers,                        \* per-project resolutions run as parallel processes
    first_run,                      \* what an earlier mapper returned for the same inputs
    environ,                        \* os.environ after load_dotenv
    config,                         \* the MigrationConfig in use, None before it is loaded
    urls,                           \* what the last URL generation returned
    updater,                        \* the DocumentURLUpdater: stats, project_gcs_map, loop position
    doc_table,                      \* the Supabase table "doc"
    migration_log,                  \* the Supabase table "migration_log"
    migrator,                       \* the SupabaseMigrator: stats, failed_batches, batches in hand
    target,                         \* the Supabase tables the migrator writes
    analysis                        \* what run_mapping_analysis reported

vars == <<store, project_path_map, projects, doc_records,
          docs_with_filenames_by_project, idx, pc, log, calls, workers, first_run,
          environ, config, urls, updater, doc_table, migration_log, migrator,
          target, analysis>>

mapper_vars == <<store, project_path_map, projects, doc_records,
                 docs_with_filenames_by_project, idx, pc, log, calls, workers, first_run>>

pipeline_vars == <<environ, config, urls, updater, doc_table, migration_log,
                   migrator, target, analysis>>

(***************************************************************************)
(* Bounds of the model.                                                    *)
(***************************************************************************)
MaxProjects == 2
MaxDocs == 2
MaxFaults == 1
MaxSampleDocs == 4
MaxCalls == 2
MaxNameLen == 3

(***************************************************************************)
(* Optional values and strings.                                            *)
(***************************************************************************)
None == {}
Some(x) == {x}
Val(o) == CHOOSE x \in o : TRUE

IsPrefix(p, s) == Len(p) <= Len(s) /\ SubSeq(s, 1, Len(p)) = p

Whitespace == {" ", "\t", "\n", "\r"}

RECURSIVE LStrip(_)
LStrip(s) ==
    IF s # "" /\ Head(s) \in Whitespace THEN LStrip(Tail(s)) ELSE s

RECURSIVE RStrip(_)
RStrip(s) ==
    IF s # "" /\ SubSeq(s, Len(s), Len(s)) \in Whitespace
    THEN RStrip(SubSeq(s, 1, Len(s) - 1))
    ELSE s

\* str.strip()
Strip(s) == RStrip(LStrip(s))

\* f"{i}" for the digits the code formats
Digits == <<"1", "2", "3", "4", "5", "6", "7", "8", "9">>

Root == "docs/Bennett Legal/"
MailroomName == "zzz_mailroom_no_project_assigned"
SolarPrefix == "Solar - "
SolarPNCPrefix == "Solar - PNC "

mailroom_path == Root \o MailroomName
mailroom_prefix == mailroom_path \o "/"

\* range(1, 10)
NumberedVariants == 1..9

\* docs_with_files[:3]
SampleSize == 3

(***************************************************************************)
(* sanitize_project_name                                                   *)
(***************************************************************************)
RECURSIVE SkipQuotes(_)
SkipQuotes(s) ==
    IF s # "" /\ Head(s) = "\"" THEN SkipQuotes(Tail(s)) ELSE s

\* a substitution of every single quote: re.sub(r'"', '_', project_name)
RECURSIVE CollapseQuotesOneByOne(_)
CollapseQuotesOneByOne(s) ==
    IF s = "" THEN ""
    ELSE (IF Head(s) = "\"" THEN "_" ELSE Head(s)) \o CollapseQuotesOneByOne(Tail(s))

\* re.sub(r'"+', '_', project_name)
RECURSIVE CollapseQuotes(_)
CollapseQuotes(s) ==
    IF s = "" THEN ""
    ELSE IF Head(s) = "\"" THEN "_" \o CollapseQuotes(SkipQuotes(s))
    ELSE Head(s) \o CollapseQuotes(Tail(s))

\* a replacement that writes a double quote for a slash
RECURSIVE ReplaceSlashesByQuotes(_)
ReplaceSlashesByQuotes(s) ==
    IF s = "" THEN ""
    ELSE (IF Head(s) = "/" THEN "\"" ELSE Head(s)) \o ReplaceSlashesByQuotes(Tail(s))

\* sanitized.replace('/', '_')
RECURSIVE ReplaceSlashes(_)
ReplaceSlashes(s) ==
    IF s = "" THEN ""
    ELSE (IF Head(s) = "/" THEN "_" ELSE Head(s)) \o ReplaceSlashes(Tail(s))

sanitize_project_name(project_name) == ReplaceSlashes(CollapseQuotes(project_name))

(***************************************************************************)
(* Candidate paths of one project, and their stable de-duplication.        *)
(***************************************************************************)
NumberedPath(name, i) == Root \o name \o " (" \o Digits[i] \o ")"

\* a list that puts the sanitized name before the original name
paths_to_check_sanitized_first(project_name, sanitized_name) ==
       << Root \o sanitized_name,
          Root \o project_name >>
    \o [i \in NumberedVariants |-> NumberedPath(sanitized_name, i)]
    \o [i \in NumberedVariants |-> NumberedPath(project_name, i)]
    \o << Root \o SolarPrefix \o sanitized_name,
          Root \o SolarPrefix \o project_name,
          Root \o SolarPNCPrefix \o sanitized_name,
          Root \o SolarPNCPrefix \o project_name,
          mailroom_path >>

paths_to_check(project_name, sanitized_name) ==
       << Root \o project_name,
          Root \o sanitized_name >>
    \o [i \in NumberedVariants |-> NumberedPath(project_name, i)]
    \o [i \in NumberedVariants |-> NumberedPath(sanitized_name, i)]
    \o << Root \o SolarPrefix \o project_name,
          Root \o SolarPrefix \o sanitized_name,
          Root \o SolarPNCPrefix \o project_name,
          Root \o SolarPNCPrefix \o sanitized_name,
          mailroom_path >>

RECURSIVE Dedup(_, _, _)
Dedup(paths, seen, acc) ==
    IF paths = <<>> THEN acc
    ELSE IF Head(paths) \in seen THEN Dedup(Tail(paths), seen, acc)
    ELSE Dedup(Tail(paths), seen \cup {Head(paths)}, Append(acc, Head(paths)))

\* a list from which no duplicate is removed
unique_paths_keeps_duplicates(paths) == paths

unique_paths(paths) == Dedup(paths, {}, <<>>)

(***************************************************************************)
(* The two store requests.  `raises` says whether the request to the store *)
(* fails with an exception.                                                *)
(***************************************************************************)
\* bucket.list_blobs(prefix=path, max_results=1) yields a blob
\* a listing of the objects inside the folder of that name
ListBlobsInFolder(path) == \E k \in store : IsPrefix(path \o "/", k)

\* a listing that does not look at the prefix
ListBlobsAnyKey(path) == store # {}

ListBlobsNonEmpty(path) == \E k \in store : IsPrefix(path, k)

gcs_path_exists(path, raises) ==
    IF raises THEN FALSE ELSE ListBlobsNonEmpty(path)

\* bucket.blob(blob_path).exists()
BlobExists(blob_path) == blob_path \in store

Outcome(raises, found) ==
    IF raises THEN "error" ELSE IF found THEN "hit" ELSE "miss"

LogEntry(pid, kind, path, outcome) ==
    [project_id |-> pid, kind |-> kind, path |-> path, outcome |-> outcome]

(***************************************************************************)
(* The main pass over the candidates of one project: lines 84-92.          *)
(* n is the number of store requests this project has issued so far;       *)
(* faults is the set of request numbers that raise.                        *)
(***************************************************************************)
\* a main pass without the break of line 92: the last match is kept
RECURSIVE ProbePathsLastWins(_, _, _, _, _)
ProbePathsLastWins(pid, paths, i, n, faults) ==
    IF i > Len(paths) THEN [best |-> None, log |-> <<>>, n |-> n]
    ELSE IF paths[i] = mailroom_path THEN ProbePathsLastWins(pid, paths, i + 1, n, faults)
    ELSE LET raises == (n + 1) \in faults
             found  == gcs_path_exists(paths[i], raises)
             entry  == LogEntry(pid, "prefix", paths[i], Outcome(raises, found))
             rest   == ProbePathsLastWins(pid, paths, i + 1, n + 1, faults)
         IN  [best |-> IF rest.best # None THEN rest.best
                       ELSE IF found THEN Some(paths[i]) ELSE None,
              log  |-> <<entry>> \o rest.log,
              n    |-> rest.n]

\* a main pass that an exception of the store request ends
RECURSIVE ProbePathsAbortOnError(_, _, _, _, _)
ProbePathsAbortOnError(pid, paths, i, n, faults) ==
    IF i > Len(paths) THEN [best |-> None, log |-> <<>>, n |-> n]
    ELSE IF paths[i] = mailroom_path THEN ProbePathsAbortOnError(pid, paths, i + 1, n, faults)
    ELSE LET raises == (n + 1) \in faults
             found  == gcs_path_exists(paths[i], raises)
             entry  == LogEntry(pid, "prefix", paths[i], Outcome(raises, found))
         IN  IF found
             THEN [best |-> Some(paths[i]), log |-> <<entry>>, n |-> n + 1]
             ELSE IF raises
             THEN [best |-> None, log |-> <<entry>>, n |-> n + 1]
             ELSE LET rest == ProbePathsAbortOnError(pid, paths, i + 1, n + 1, faults)
                  IN  [rest EXCEPT !.log = <<entry>> \o @]

RECURSIVE ProbePaths(_, _, _, _, _)
ProbePaths(pid, paths, i, n, faults) ==
    IF i > Len(paths) THEN [best |-> None, log |-> <<>>, n |-> n]
    ELSE IF paths[i] = mailroom_path THEN ProbePaths(pid, paths, i + 1, n, faults)
    ELSE LET raises == (n + 1) \in faults
             found  == gcs_path_exists(paths[i], raises)
             entry  == LogEntry(pid, "prefix", paths[i], Outcome(raises, found))
         IN  IF found
             THEN [best |-> Some(paths[i]), log |-> <<entry>>, n |-> n + 1]
             ELSE LET rest == ProbePaths(pid, paths, i + 1, n + 1, faults)
                  IN  [rest EXCEPT !.log = <<entry>> \o @]

(***************************************************************************)
(* check_documents_in_mailroom: lines 112-132.  An exception of            *)
(* blob.exists() leaves the loop through the enclosing try.                *)
(***************************************************************************)
\* a sample that takes every document of the project
sample_files_unbounded(docs_with_files) ==
    LET kept == SelectSeq(docs_with_files, LAMBDA d : d.filename # None /\ Val(d.filename) # "")
    IN  [i \in 1..Len(kept) |-> Val(kept[i].filename)]

sample_files(docs_with_files) ==
    LET first == SubSeq(docs_with_files, 1,
                        IF Len(docs_with_files) < SampleSize
                        THEN Len(docs_with_files) ELSE SampleSize)
        kept  == SelectSeq(first, LAMBDA d : d.filename # None /\ Val(d.filename) # "")
    IN  [i \in 1..Len(kept) |-> Val(kept[i].filename)]

\* a check that goes on after a file has been found
RECURSIVE CheckSamplesChecksAll(_, _, _, _, _)
CheckSamplesChecksAll(pid, files, i, n, faults) ==
    IF i > Len(files) THEN [found |-> FALSE, log |-> <<>>]
    ELSE LET blob_path == mailroom_prefix \o files[i]
             raises    == (n + 1) \in faults
             found     == ~raises /\ BlobExists(blob_path)
             entry     == LogEntry(pid, "blob", blob_path, Outcome(raises, found))
             rest      == CheckSamplesChecksAll(pid, files, i + 1, n + 1, faults)
         IN  IF raises THEN [found |-> FALSE, log |-> <<entry>>]
             ELSE [found |-> found \/ rest.found, log |-> <<entry>> \o rest.log]

RECURSIVE CheckSamples(_, _, _, _, _)
CheckSamples(pid, files, i, n, faults) ==
    IF i > Len(files) THEN [found |-> FALSE, log |-> <<>>]
    ELSE LET blob_path == mailroom_prefix \o files[i]
             raises    == (n + 1) \in faults
             found     == ~raises /\ BlobExists(blob_path)
             entry     == LogEntry(pid, "blob", blob_path, Outcome(raises, found))
         IN  IF raises THEN [found |-> FALSE, log |-> <<entry>>]
             ELSE IF found THEN [found |-> TRUE, log |-> <<entry>>]
             ELSE LET rest == CheckSamples(pid, files, i + 1, n + 1, faults)
                  IN  [rest EXCEPT !.log = <<entry>> \o @]

check_documents_in_mailroom(pid, docs_with_files, n, faults) ==
    CheckSamples(pid, sample_files(docs_with_files), 1, n, faults)

(***************************************************************************)
(* One iteration of "for project in projects" for a project that has       *)
(* documents with filenames: lines 55-100.                                 *)
(***************************************************************************)
\* an iteration that never takes the mailroom as the match
ResolveProjectNoFallback(project, docs_with_files, faults) ==
    LET paths == unique_paths(paths_to_check(project.project_name,
                                             sanitize_project_name(project.project_name)))
        main  == ProbePaths(project.id, paths, 1, 0, faults)
        mail  == check_documents_in_mailroom(project.id, docs_with_files, main.n, faults)
    IN  IF main.best # None
        THEN [best |-> main.best, log |-> main.log]
        ELSE [best |-> None, log |-> main.log \o mail.log]

\* an iteration that checks the mailroom whether or not the main pass matched
ResolveProjectAlwaysChecksMailroom(project, docs_with_files, faults) ==
    LET paths == unique_paths(paths_to_check(project.project_name,
                                             sanitize_project_name(project.project_name)))
        main  == ProbePaths(project.id, paths, 1, 0, faults)
        mail  == check_documents_in_mailroom(project.id, docs_with_files, main.n, faults)
    IN  [best |-> IF main.best # None THEN main.best
                  ELSE IF mail.found THEN Some(mailroom_path) ELSE None,
         log  |-> main.log \o mail.log]

ResolveProject(project, docs_with_files, faults) ==
    LET paths == unique_paths(paths_to_check(project.project_name,
                                             sanitize_project_name(project.project_name)))
        main  == ProbePaths(project.id, paths, 1, 0, faults)
    IN  IF main.best # None
        THEN [best |-> main.best, log |-> main.log]
        ELSE LET mail == check_documents_in_mailroom(project.id, docs_with_files,
                                                     main.n, faults)
             IN  [best |-> IF mail.found THEN Some(mailroom_path) ELSE None,
                  log  |-> main.log \o mail.log]

\* a store that writes a mapping holding the entry of this project alone
StoreMatchDropsOthers(map, project_id, best) ==
    IF best # None
    THEN [p \in {project_id} |-> Val(best)]
    ELSE map

\* an assignment under the project id of the first document of the input
StoreMatchUnderDocumentId(map, project_id, best) ==
    IF best # None
    THEN LET key == IF doc_records # <<>> /\ doc_records[1].project_id # None
                    THEN Val(doc_records[1].project_id) ELSE project_id
         IN  [p \in DOMAIN map \cup {key} |-> IF p = key THEN Val(best) ELSE map[p]]
    ELSE map

\* self.project_path_map[project_id] = best_match_path, when there is one
StoreMatch(map, project_id, best) ==
    IF best # None
    THEN [p \in DOMAIN map \cup {project_id} |->
             IF p = project_id THEN Val(best) ELSE map[p]]
    ELSE map

\* statistics that count the mapped values without making a set of them
get_mapping_stats_counts_values(map) ==
    [total_projects_mapped |-> Cardinality(DOMAIN map),
     unique_paths          |-> Cardinality(DOMAIN map)]

\* get_mapping_stats: lines 150-155
get_mapping_stats(map) ==
    [total_projects_mapped |-> Cardinality(DOMAIN map),
     unique_paths          |-> Cardinality({ map[p] : p \in DOMAIN map })]

(***************************************************************************)
(* Grouping of the documents: lines 36-43.                                 *)
(***************************************************************************)
\* if doc.project_id:
HasProjectId(doc) == doc.project_id # None /\ Val(doc.project_id) # 0

\* the filename test without .strip()
HasFilenameNoStrip(doc) == doc.filename # None /\ Val(doc.filename) # ""

\* if doc.filename and doc.filename.strip():
HasFilename(doc) ==
    doc.filename # None /\ Val(doc.filename) # "" /\ Strip(Val(doc.filename)) # ""

GroupDocs(docs) ==
    LET keys == {Val(docs[i].project_id) :
                    i \in {j \in 1..Len(docs) : HasProjectId(docs[j]) /\ HasFilename(docs[j])}}
    IN  [p \in keys |->
            SelectSeq(docs, LAMBDA d : HasProjectId(d) /\ Val(d.project_id) = p /\ HasFilename(d))]

\* docs_with_filenames_by_project.get(project_id, [])
DocsWithFiles(project_id) ==
    IF project_id \in DOMAIN docs_with_filenames_by_project
    THEN docs_with_filenames_by_project[project_id]
    ELSE <<>>

(***************************************************************************)
(* Inputs.                                                                 *)
(***************************************************************************)
FileF == "f.pdf"
FileG == "g.pdf"
NameF == "Foo"
NameOC == "O'Brien/Case"

ProjectRecord(id, name) == [id |-> id, project_name |-> name]
DocumentRecord(id, pid, filename) == [id |-> id, project_id |-> pid, filename |-> filename]

\* rows of the legacy Project table
ProjectRows == { ProjectRecord(0, NameF), ProjectRecord(1, NameF), ProjectRecord(2, NameOC) }

RECURSIVE ListsOver(_, _)
ListsOver(rows, n) ==
    IF n = 0 THEN { <<>> }
    ELSE LET shorter == ListsOver(rows, n - 1)
         IN  shorter \cup { Append(l, r) : l \in shorter, r \in rows }

DistinctIds(l) == \A i, j \in 1..Len(l) : l[i].id = l[j].id => i = j

\* project lists: any order, ids unique
ProjectLists == { l \in ListsOver(ProjectRows, MaxProjects) : DistinctIds(l) }

\* rows of the legacy Doc table, in table order
DocRows == <<
    DocumentRecord(1, None,    Some(FileF)),
    DocumentRecord(2, Some(0), Some(FileF)),
    DocumentRecord(3, Some(1), Some(FileG)),
    DocumentRecord(4, Some(1), Some(" ")),
    DocumentRecord(5, Some(1), Some(FileF)),
    DocumentRecord(6, Some(2), Some(FileF)),
    DocumentRecord(7, Some(2), None),
    DocumentRecord(8, Some(2), Some("")) >>

RECURSIVE Pick(_, _, _)
Pick(rows, i, ids) ==
    IF i > Len(rows) THEN <<>>
    ELSE IF rows[i].id \in ids THEN <<rows[i]>> \o Pick(rows, i + 1, ids)
    ELSE Pick(rows, i + 1, ids)

RECURSIVE SubsetsUpTo(_, _)
SubsetsUpTo(S, n) ==
    IF n = 0 THEN { {} }
    ELSE LET smaller == SubsetsUpTo(S, n - 1)
         IN  smaller \cup { T \cup {x} : T \in smaller, x \in S }

\* document lists: up to MaxDocs rows of the table
DocLists == { Pick(DocRows, 1, ids) : ids \in SubsetsUpTo(1..Len(DocRows), MaxDocs) }

Object == "/x.pdf"
ObjectKeys == {
    Root \o NameF \o Object,
    NumberedPath(NameF, 1) \o Object,
    Root \o sanitize_project_name(NameOC) \o Object,
    mailroom_prefix \o FileF,
    mailroom_prefix \o FileG }

Stores == SubsetsUpTo(ObjectKeys, 2)

\* which of a project's store requests raise: at most m of the first n
FaultSets(n, m) == SubsetsUpTo(1..n, m)

\* the store requests one project can issue: every candidate but the mailroom, then the samples
MaxRequests(project, docs_with_files) ==
    Len(unique_paths(paths_to_check(project.project_name,
                                    sanitize_project_name(project.project_name))))
    + Len(sample_files(docs_with_files))

\* the requests of the current call that have raised
Errors == Len(SelectSeq(log, LAMBDA e : e.outcome = "error"))

(***************************************************************************)
(* generate_document_url and generate_public_url                           *)
(***************************************************************************)
\* a generator that answers for every project id, under the fallback folder
generate_document_url_for_any_project(map, bucket_name, project_id, filename) ==
    LET folder == IF project_id \in DOMAIN map THEN map[project_id] ELSE mailroom_path
    IN  Some("gs://" \o bucket_name \o "/" \o folder \o "/" \o filename)

\* lines 134-140
generate_document_url(map, bucket_name, project_id, filename) ==
    IF project_id \notin DOMAIN map THEN None
    ELSE LET gcs_path == map[project_id] \o "/" \o filename
         IN  Some("gs://" \o bucket_name \o "/" \o gcs_path)

\* lines 142-148
generate_public_url(map, bucket_name, project_id, filename) ==
    IF project_id \notin DOMAIN map THEN None
    ELSE LET gcs_path == map[project_id] \o "/" \o filename
         IN  Some("https://storage.googleapis.com/" \o bucket_name \o "/" \o gcs_path)

(***************************************************************************)
(* load_config_from_env                                                    *)
(***************************************************************************)
NoEnv == [v \in {} |-> ""]

\* os.getenv(name, default)
getenv(env, name, default) == IF name \in DOMAIN env THEN env[name] ELSE default

\* os.getenv(name)
getenv_optional(env, name) == IF name \in DOMAIN env THEN Some(env[name]) ELSE None

UpperCase == "ABCDEFGHIJKLMNOPQRSTUVWXYZ"
LowerCase == "abcdefghijklmnopqrstuvwxyz"

LowerChar(c) ==
    IF \E i \in 1..Len(UpperCase) : SubSeq(UpperCase, i, i) = c
    THEN LET i == CHOOSE j \in 1..Len(UpperCase) : SubSeq(UpperCase, j, j) = c
         IN  SubSeq(LowerCase, i, i)
    ELSE c

\* str.lower()
RECURSIVE lower(_)
lower(s) == IF s = "" THEN "" ELSE LowerChar(Head(s)) \o lower(Tail(s))

DecimalDigits == "0123456789"

IsDigit(c) == \E i \in 1..Len(DecimalDigits) : SubSeq(DecimalDigits, i, i) = c

DigitValue(c) == (CHOOSE i \in 1..Len(DecimalDigits) : SubSeq(DecimalDigits, i, i) = c) - 1

RECURSIVE AllDigits(_)
AllDigits(s) == s = "" \/ (IsDigit(Head(s)) /\ AllDigits(Tail(s)))

RECURSIVE DigitsValue(_, _)
DigitsValue(s, acc) ==
    IF s = "" THEN acc ELSE DigitsValue(Tail(s), 10 * acc + DigitValue(Head(s)))

\* int(s) for a str: None stands for ValueError
int(s) ==
    LET t == Strip(s)
        signed == t # "" /\ Head(t) \in {"+", "-"}
        digits == IF signed THEN Tail(t) ELSE t
    IN  IF digits = "" \/ ~AllDigits(digits) THEN None
        ELSE IF signed /\ Head(t) = "-" THEN Some(0 - DigitsValue(digits, 0))
        ELSE Some(DigitsValue(digits, 0))

\* lines 22-58; None stands for the ValueError of int()
load_config_from_env(env) ==
    LET mssql_config ==
            [server |-> getenv(env, "MSSQL_SERVER", ""),
             database |-> getenv(env, "MSSQL_DATABASE", "OrgExport_FVtoFV_Migration"),
             username |-> getenv(env, "MSSQL_USERNAME", ""),
             password |-> getenv(env, "MSSQL_PASSWORD", ""),
             driver |-> getenv(env, "MSSQL_DRIVER", "ODBC Driver 18 for SQL Server"),
             trust_server_certificate |->
                 lower(getenv(env, "MSSQL_TRUST_CERT", "true")) = "true"]
        supabase_config ==
            [url |-> getenv(env, "SUPABASE_URL", ""),
             key |-> getenv(env, "SUPABASE_ANON_KEY", ""),
             service_role_key |-> getenv(env, "SUPABASE_SERVICE_ROLE_KEY", "")]
        gcs_config ==
            [project_id |-> getenv(env, "GCS_PROJECT_ID", "dataengineerng"),
             bucket_name |-> getenv(env, "GCS_BUCKET_NAME", "bennett_bucket1"),
             credentials_path |-> getenv_optional(env, "GOOGLE_APPLICATION_CREDENTIALS")]
        batch_size == int(getenv(env, "MIGRATION_BATCH_SIZE", "1000"))
        max_concurrent == int(getenv(env, "MIGRATION_MAX_CONCURRENT", "5"))
        dry_run == lower(getenv(env, "MIGRATION_DRY_RUN", "false")) = "true"
    IN  IF batch_size = None \/ max_concurrent = None THEN None
        ELSE Some([mssql |-> mssql_config,
                   supabase |-> supabase_config,
                   gcs |-> gcs_config,
                   batch_size |-> Val(batch_size),
                   max_concurrent |-> Val(max_concurrent),
                   dry_run |-> dry_run])

(***************************************************************************)
(* MigrationStats and the objects that keep one.                           *)
(***************************************************************************)
MigrationStats ==
    [total_docs |-> 0, migrated_docs |-> 0, pending_docs |-> 0,
     files_uploaded |-> 0, errors |-> 0]

\* no DocumentURLUpdater has been constructed
NoUpdater == None

\* no SupabaseMigrator has been constructed
NoMigrator == None

(***************************************************************************)
(* DocumentURLUpdater.  A row of the table "doc" is a function from column *)
(* names to values, a null column being absent; next to the fetched        *)
(* columns the table keeps the URL fields an update has written.           *)
(***************************************************************************)
\* doc_record.get(key)
get(row, key) == IF key \in DOMAIN row THEN Some(row[key]) ELSE None

\* the truth value of an Optional[str] and of an Optional[int]
TruthyStr(o) == o # None /\ Val(o) # ""
TruthyInt(o) == o # None /\ Val(o) # 0

\* a or b
OrStr(a, b) == IF TruthyStr(a) THEN a ELSE b
OrInt(a, b) == IF TruthyInt(a) THEN a ELSE b

\* lines 71-73
doc_id_of(doc) == OrInt(get(doc, "id"), get(doc, "ID"))
filename_of(doc) == OrStr(get(doc, "filename"), get(doc, "Filename"))
project_id_of(doc) ==
    OrInt(OrInt(get(doc, "projectid"), get(doc, "ProjectID")), get(doc, "project_id"))

\* DocumentURLUpdater.__init__
NewUpdater(cfg, project_gcs_map) ==
    [stats |-> MigrationStats,
     project_gcs_map |-> project_gcs_map,
     bucket_name |-> cfg.gcs.bucket_name,
     dry_run |-> cfg.dry_run,
     pc |-> "idle",
     fetched |-> <<>>,
     idx |-> 1,
     calls |-> 0]

\* lines 186-201: the insert into migration_log is tried unless dry_run is
\* set, and a failure of it is swallowed
log_update_error(mlog, dry_run, doc_id, inserted) ==
    IF dry_run \/ ~inserted THEN mlog
    ELSE Append(mlog, [doc_id |-> doc_id, log_type |-> "url_update_error"])

\* the rows that .eq('id', doc_id) selects
RowsWithId(table, doc_id) ==
    { i \in 1..Len(table) : doc_id # None /\ get(table[i].data, "id") = doc_id }

\* an updater that passes over a document it cannot place without counting it
update_single_document_url_skips_silently(u, table, mlog, doc, outcome, inserted) ==
    [stats |-> u.stats, doc_table |-> table, migration_log |-> mlog]

\* lines 67-119; outcome is what the update request does: "executes" or "raises"
update_single_document_url(u, table, mlog, doc, outcome, inserted) ==
    LET doc_id == doc_id_of(doc)
        filename == filename_of(doc)
        project_id == project_id_of(doc)
        failed == [stats |-> [u.stats EXCEPT !.errors = @ + 1],
                   doc_table |-> table,
                   migration_log |-> log_update_error(mlog, u.dry_run, doc_id, inserted)]
    IN  IF ~TruthyStr(filename) \/ ~TruthyInt(project_id) THEN failed
        ELSE IF Val(project_id) \notin DOMAIN u.project_gcs_map THEN failed
        ELSE LET gcs_path == u.project_gcs_map[Val(project_id)] \o "/" \o Val(filename)
                 gcs_url == "gs://" \o u.bucket_name \o "/" \o gcs_path
                 public_url == "https://storage.googleapis.com/" \o u.bucket_name
                                   \o "/" \o gcs_path
                 rows == RowsWithId(table, doc_id)
             IN  IF outcome = "raises" \/ rows = {} THEN failed
                 ELSE [stats |-> [u.stats EXCEPT !.migrated_docs = @ + 1],
                       doc_table |->
                           [i \in 1..Len(table) |->
                               IF i \in rows
                               THEN [table[i] EXCEPT !.written =
                                        Some([gcs_url |-> gcs_url,
                                              gcs_public_url |-> public_url,
                                              gcs_path |-> gcs_path,
                                              is_migrated |-> TRUE])]
                               ELSE table[i]],
                       migration_log |-> mlog]

(***************************************************************************)
(* SupabaseMigrator.  A record is a function from column names to values;  *)
(* the target is the list of rows its tables hold, each with its table.    *)
(***************************************************************************)
\* SupabaseMigrator.__init__
NewMigrator(cfg) ==
    [stats |-> MigrationStats,
     failed_batches |-> <<>>,
     batch_size |-> cfg.batch_size,
     dry_run |-> cfg.dry_run,
     pc |-> "idle",
     table_name |-> "",
     cursor |-> <<>>,
     snapshot |-> <<>>,
     successes |-> <<>>,
     retry_count |-> 0,
     calls |-> 0]

\* lines 584-610: the insert into migration_log is tried unless dry_run is
\* set, and a failure of it is swallowed
log_error(mlog, dry_run, doc_id, log_type, inserted) ==
    IF dry_run \/ ~inserted THEN mlog
    ELSE Append(mlog, [doc_id |-> doc_id, log_type |-> log_type])

\* lines 621-629
log_batch_failure(failed_batches, table_name, batch_data, error_message, now) ==
    Append(failed_batches,
           [table_name |-> table_name,
            error_message |-> error_message,
            batch_size |-> Len(batch_data),
            failed_at |-> now,
            batch_data |-> batch_data])

\* the table holds a row with the id of the record
InTarget(tgt, table_name, record) ==
    \E i \in 1..Len(tgt) : tgt[i].table = table_name /\ tgt[i].record.id = record.id

\* the rows an insert of the records adds
Rows(table_name, records) ==
    [i \in 1..Len(records) |-> [table |-> table_name, record |-> records[i]]]

\* lines 164-200: each record is inserted on its own; how[i] is what the
\* insert of record i does: "inserted", "no_data" or "raises"
RECURSIVE insert_individual_records(_, _, _, _, _, _)
insert_individual_records(stats, tgt, table_name, batch_data, how, i) ==
    IF i > Len(batch_data) THEN [stats |-> stats, target |-> tgt]
    ELSE IF how[i] = "inserted"
    THEN insert_individual_records([stats EXCEPT !.migrated_docs = @ + 1],
                                   Append(tgt, [table |-> table_name,
                                                record |-> batch_data[i]]),
                                   table_name, batch_data, how, i + 1)
    ELSE IF how[i] = "raises"
    THEN insert_individual_records([stats EXCEPT !.errors = @ + 1], tgt,
                                   table_name, batch_data, how, i + 1)
    ELSE insert_individual_records(stats, tgt, table_name, batch_data, how, i + 1)

\* lines 102-162; outcome is what Supabase does with the batch:
\*   "missing"    the table does not exist (line 106)
\*   "inserted"   the insert returns the inserted rows
\*   "no_data"    the insert returns no rows
\*   "not_found"  the insert raises a 404
\*   "conflict"   the insert raises a unique or duplicate violation
\*   "error"      the insert raises anything else
insert_batch(m, tgt, mlog, table_name, batch_data, outcome, how, now, logged) ==
    LET failed(message, stats) ==
            [stats |-> stats,
             failed_batches |-> log_batch_failure(m.failed_batches, table_name,
                                                  batch_data, message, now),
             target |-> tgt,
             migration_log |-> log_error(mlog, m.dry_run, None, "batch_failure", logged)]
    IN  CASE outcome = "missing" ->
                failed("Table " \o table_name \o " does not exist in Supabase", m.stats)
          [] outcome = "inserted" ->
                [stats |-> [m.stats EXCEPT !.migrated_docs = @ + Len(batch_data)],
                 failed_batches |-> m.failed_batches,
                 target |-> tgt \o Rows(table_name, batch_data),
                 migration_log |-> mlog]
          [] outcome = "no_data" ->
                failed("No data returned from insert", m.stats)
          [] outcome = "not_found" ->
                failed("Table " \o table_name \o " not found in Supabase", m.stats)
          [] outcome = "conflict" ->
                LET r == insert_individual_records(m.stats, tgt, table_name,
                                                   batch_data, how, 1)
                IN  [stats |-> r.stats,
                     failed_batches |-> m.failed_batches,
                     target |-> r.target,
                     migration_log |-> mlog]
          [] OTHER ->
                failed("Insert failed for " \o table_name,
                       [m.stats EXCEPT !.errors = @ + 1])

\* list.remove(x): the first element equal to x goes
RECURSIVE Remove(_, _)
Remove(list, x) ==
    IF list = <<>> THEN <<>>
    ELSE IF Head(list) = x THEN Tail(list)
    ELSE <<Head(list)>> \o Remove(Tail(list), x)

\* rows[:n] and rows[n:]
Take(rows, n) == SubSeq(rows, 1, IF n < Len(rows) THEN n ELSE Len(rows))
Drop(rows, n) == SubSeq(rows, (IF n < Len(rows) THEN n ELSE Len(rows)) + 1, Len(rows))

(***************************************************************************)
(* Actions.                                                                *)
(***************************************************************************)
NoMap == [p \in {} |-> ""]

\* ProjectGCSMapper.__init__, before any call
MapperConstructed ==
    /\ project_path_map = NoMap
    /\ projects = <<>>
    /\ doc_records = <<>>
    /\ docs_with_filenames_by_project = NoMap
    /\ idx = 1
    /\ pc = "idle"
    /\ log = <<>>
    /\ calls = 0
    /\ workers = NoMap
    /\ first_run = None

Init ==
    /\ store \in Stores
    /\ MapperConstructed
    /\ environ = NoEnv
    /\ config = load_config_from_env(NoEnv)
    /\ urls = None
    /\ updater = NoUpdater
    /\ doc_table = <<>>
    /\ migration_log = <<>>
    /\ migrator = NoMigrator
    /\ target = <<>>
    /\ analysis = None

\* build_project_mapping(projects, doc_records): entry and lines 36-43
Call(ps, ds) ==
    /\ pc \in {"idle", "returned"}
    /\ projects' = ps
    /\ doc_records' = ds
    /\ docs_with_filenames_by_project' = GroupDocs(ds)
    /\ idx' = 1
    /\ pc' = "loop"
    /\ log' = <<>>
    /\ calls' = calls + 1
    /\ UNCHANGED <<store, project_path_map, workers, first_run>>
    /\ UNCHANGED pipeline_vars

\* lines 45-53: the project has no documents with filenames
SkipProject ==
    /\ pc = "loop"
    /\ idx <= Len(projects)
    /\ DocsWithFiles(projects[idx].id) = <<>>
    /\ idx' = idx + 1
    /\ UNCHANGED <<store, project_path_map, projects, doc_records,
                   docs_with_filenames_by_project, pc, log, calls, workers, first_run>>
    /\ UNCHANGED pipeline_vars

\* lines 45-100: the project is resolved; at most m store requests raise
MapProjectUpTo(m) ==
    /\ pc = "loop"
    /\ idx <= Len(projects)
    /\ DocsWithFiles(projects[idx].id) # <<>>
    /\ \E faults \in FaultSets(MaxRequests(projects[idx], DocsWithFiles(projects[idx].id)),
                              IF m > Errors THEN m - Errors ELSE 0) :
          LET r == ResolveProject(projects[idx], DocsWithFiles(projects[idx].id), faults)
          IN  /\ project_path_map' = StoreMatch(project_path_map, projects[idx].id, r.best)
              /\ log' = log \o r.log
    /\ idx' = idx + 1
    /\ UNCHANGED <<store, projects, doc_records, docs_with_filenames_by_project, pc, calls, workers, first_run>>
    /\ UNCHANGED pipeline_vars

MapProject == MapProjectUpTo(MaxFaults)

\* the same on a store that does not answer the same request the same way twice
MapProjectUnstableStore == MapProjectUpTo(MaxFaults)

\* the same on a store whose requests never fail
MapProjectNoFault == MapProjectUpTo(0)

\* line 102
Return ==
    /\ pc = "loop"
    /\ idx > Len(projects)
    /\ pc' = "returned"
    /\ UNCHANGED <<store, project_path_map, projects, doc_records,
                   docs_with_filenames_by_project, idx, log, calls, workers, first_run>>
    /\ UNCHANGED pipeline_vars

\* the bucket changes between two runs
StoreChanges ==
    /\ pc = "returned"
    /\ store' \in Stores
    /\ UNCHANGED <<project_path_map, projects, doc_records,
                   docs_with_filenames_by_project, idx, pc, log, calls, workers, first_run>>
    /\ UNCHANGED pipeline_vars

\* a fresh mapper runs build_project_mapping once
FirstCall == calls = 0 /\ \E ps \in ProjectLists, ds \in DocLists : Call(ps, ds)

(***************************************************************************)
(* A reconciliation run of the command line: a fresh mapper, one call, on  *)
(* a store whose requests do not fail.                                     *)
(***************************************************************************)
Next ==
    \/ FirstCall
    \/ SkipProject
    \/ MapProjectNoFault
    \/ Return

Spec == Init /\ [][Next]_vars

(***************************************************************************)
(* The same run on a store whose requests may fail: up to MaxFaults        *)
(* requests of the run raise.  The documents are rows with filenames.      *)
(***************************************************************************)
FaultDocLists == { Pick(DocRows, 1, ids) : ids \in SUBSET {3, 5, 6} }

FaultProjectLists == { l \in ListsOver(ProjectRows, 2) : DistinctIds(l) }

FaultyCall == calls = 0 /\ \E ps \in FaultProjectLists, ds \in FaultDocLists : Call(ps, ds)

NextFaults ==
    \/ FaultyCall
    \/ SkipProject
    \/ MapProject
    \/ Return

SpecFaults == Init /\ [][NextFaults]_vars

(***************************************************************************)
(* The mapper of a DocumentIndexer: build_project_mapping is called again  *)
(* on the same object, with the inputs and the bucket of the later run.    *)
(***************************************************************************)
ReuseProjectLists ==
    { l \in ListsOver({ProjectRecord(1, NameF), ProjectRecord(2, NameOC)}, 2) : DistinctIds(l) }

ReuseDocLists == { Pick(DocRows, 1, ids) : ids \in SUBSET {4, 5, 6} }

AnyCall ==
    /\ calls < MaxCalls
    /\ \E ps \in ReuseProjectLists, ds \in ReuseDocLists : Call(ps, ds)

NextReuse ==
    \/ AnyCall
    \/ SkipProject
    \/ MapProjectNoFault
    \/ Return
    \/ StoreChanges

SpecReuse == Init /\ [][NextReuse]_vars

(***************************************************************************)
(* One project with many documents, on a store whose requests never fail:  *)
(* the sampling of check_documents_in_mailroom.                            *)
(***************************************************************************)
SamplingProjectLists == { <<ProjectRecord(1, NameF)>>, <<ProjectRecord(2, NameOC)>> }

SamplingDocRows(pid) == <<
    DocumentRecord(1, Some(pid), Some(FileG)),
    DocumentRecord(2, Some(pid), Some(" ")),
    DocumentRecord(3, Some(pid), Some(FileG)),
    DocumentRecord(4, Some(pid), Some(FileF)),
    DocumentRecord(5, Some(pid), Some(FileG)),
    DocumentRecord(6, Some(pid), Some(FileF)) >>

SamplingDocLists(pid) ==
    { Pick(SamplingDocRows(pid), 1, ids) :
        ids \in SubsetsUpTo(1..Len(SamplingDocRows(pid)), MaxSampleDocs) }

SamplingCall ==
    /\ calls = 0
    /\ \E ps \in SamplingProjectLists : \E ds \in SamplingDocLists(ps[1].id) : Call(ps, ds)

NextSampling ==
    \/ SamplingCall
    \/ SkipProject
    \/ MapProjectNoFault
    \/ Return

SpecSampling == Init /\ [][NextSampling]_vars

(***************************************************************************)
(* build_project_mapping as a function of the mapping it starts from and   *)
(* its two arguments, on a store whose requests do not fail: lines 36-102. *)
(***************************************************************************)
RECURSIVE MapProjects(_, _, _, _)
MapProjects(map, ps, i, grouped) ==
    IF i > Len(ps) THEN map
    ELSE LET docs_with_files == IF ps[i].id \in DOMAIN grouped THEN grouped[ps[i].id] ELSE <<>>
         IN  IF docs_with_files = <<>>
             THEN MapProjects(map, ps, i + 1, grouped)
             ELSE MapProjects(StoreMatch(map, ps[i].id,
                                         ResolveProject(ps[i], docs_with_files, {}).best),
                              ps, i + 1, grouped)

build_project_mapping(map, ps, ds) == MapProjects(map, ps, 1, GroupDocs(ds))

(***************************************************************************)
(* The loop of lines 45-100 run as one process per project: each process   *)
(* resolves its project against the store and then inserts under its own   *)
(* project id; the processes interleave in any order.                      *)
(***************************************************************************)
ParallelCall ==
    /\ calls = 0
    /\ pc = "idle"
    /\ \E ps \in ProjectLists, ds \in DocLists :
          /\ projects' = ps
          /\ doc_records' = ds
          /\ docs_with_filenames_by_project' = GroupDocs(ds)
    /\ pc' = "parallel"
    /\ calls' = calls + 1
    /\ workers' = NoMap
    /\ UNCHANGED <<store, project_path_map, idx, log, first_run>>
    /\ UNCHANGED pipeline_vars

\* lines 46-97 for project i: best_match_path is computed, nothing is stored yet
WorkerResolves(i) ==
    /\ pc = "parallel"
    /\ i \in 1..Len(projects)
    /\ i \notin DOMAIN workers
    /\ LET docs_with_files == DocsWithFiles(projects[i].id)
           r == IF docs_with_files = <<>>
                THEN [best |-> None, log |-> <<>>]
                ELSE ResolveProject(projects[i], docs_with_files, {})
       IN  /\ workers' = [w \in DOMAIN workers \cup {i} |->
                             IF w = i THEN [best |-> r.best, stored |-> FALSE] ELSE workers[w]]
           /\ log' = log \o r.log
    /\ UNCHANGED <<store, project_path_map, projects, doc_records,
                   docs_with_filenames_by_project, idx, pc, calls, first_run>>
    /\ UNCHANGED pipeline_vars

\* lines 99-100 for project i
WorkerStores(i) ==
    /\ pc = "parallel"
    /\ i \in DOMAIN workers
    /\ ~workers[i].stored
    /\ project_path_map' = StoreMatch(project_path_map, projects[i].id, workers[i].best)
    /\ workers' = [workers EXCEPT ![i].stored = TRUE]
    /\ UNCHANGED <<store, projects, doc_records, docs_with_filenames_by_project,
                   idx, pc, log, calls, first_run>>
    /\ UNCHANGED pipeline_vars

\* line 102, once every process has stored
ParallelReturn ==
    /\ pc = "parallel"
    /\ DOMAIN workers = 1..Len(projects)
    /\ \A i \in DOMAIN workers : workers[i].stored
    /\ pc' = "returned"
    /\ UNCHANGED <<store, project_path_map, projects, doc_records,
                   docs_with_filenames_by_project, idx, log, calls, workers, first_run>>
    /\ UNCHANGED pipeline_vars

Resolve == \E i \in 1..Len(projects) : WorkerResolves(i)

Store == \E i \in 1..Len(projects) : WorkerStores(i)

NextParallel ==
    \/ ParallelCall
    \/ Resolve
    \/ Store
    \/ ParallelReturn

SpecParallel == Init /\ [][NextParallel]_vars

(***************************************************************************)
(* One project with many documents with filenames, on a store whose        *)
(* requests may fail; the scheduler keeps the call running until it        *)
(* returns.                                                                *)
(***************************************************************************)
BudgetDocRows(pid) == <<
    DocumentRecord(1, Some(pid), Some(FileG)),
    DocumentRecord(2, Some(pid), Some(FileF)),
    DocumentRecord(3, Some(pid), Some(FileG)),
    DocumentRecord(4, Some(pid), Some(FileF)),
    DocumentRecord(5, Some(pid), Some(FileG)),
    DocumentRecord(6, Some(pid), Some(FileF)) >>

\* the first n rows of the table, n up to MaxSampleDocs
BudgetDocLists(pid) ==
    { SubSeq(BudgetDocRows(pid), 1, n) :
        n \in { m \in 0..MaxSampleDocs : m <= Len(BudgetDocRows(pid)) } }

BudgetCall ==
    /\ calls = 0
    /\ \E ps \in SamplingProjectLists : \E ds \in BudgetDocLists(ps[1].id) : Call(ps, ds)

NextBudget ==
    \/ BudgetCall
    \/ SkipProject
    \/ MapProject
    \/ Return

\* the enabling condition of MapProject: a fault set always exists, the empty one
MapProjectEnabled ==
    pc = "loop" /\ idx <= Len(projects) /\ DocsWithFiles(projects[idx].id) # <<>>

\* the steps of NextBudget that are MapProject steps: the one action that
\* advances the loop from a state where MapProject is enabled
MapProjectStep == MapProjectEnabled /\ idx' = idx + 1

\* the interpreter runs the call, each iteration of the loop and the return to
\* their end: weak fairness of every action, that of MapProject with its
\* enabling condition and its steps written out
Fairness ==
    /\ WF_vars(BudgetCall)
    /\ WF_vars(SkipProject)
    /\ WF_vars(Return)
    /\ ([]<>(~MapProjectEnabled) \/ []<><<MapProjectStep>>_vars)

SpecBudget == Init /\ [][NextBudget]_vars /\ Fairness

(***************************************************************************)
(* One project of any name, with one document, on a store whose requests   *)
(* do not fail: the names are the strings of up to MaxNameLen characters   *)
(* over a letter, the double quote, the slash and the underscore, the two  *)
(* names above and the name of the mailroom folder.                        *)
(***************************************************************************)
NameChars == {"a", "\"", "/", "_"}

RECURSIVE StringsUpTo(_)
StringsUpTo(n) ==
    IF n = 0 THEN { "" }
    ELSE LET shorter == StringsUpTo(n - 1)
         IN  shorter \cup { w \o c : w \in shorter, c \in NameChars }

ProjectNames == StringsUpTo(MaxNameLen) \cup {NameF, NameOC, MailroomName}

\* the project has one document, with or without a filename
NamedDocLists ==
    { <<DocumentRecord(1, Some(1), Some(FileF))>>, <<DocumentRecord(1, Some(1), None)>> }

NamedCall ==
    /\ calls = 0
    /\ \E name \in ProjectNames, ds \in NamedDocLists : Call(<<ProjectRecord(1, name)>>, ds)

NextNames ==
    \/ NamedCall
    \/ SkipProject
    \/ MapProjectNoFault
    \/ Return

SpecNames == Init /\ [][NextNames]_vars

(***************************************************************************)
(* Two runs of the reconciler on the same project list, document list and  *)
(* store: after the first mapper has returned, a second mapper is          *)
(* constructed and runs build_project_mapping with the same arguments.     *)
(***************************************************************************)
RunAgain ==
    /\ pc = "returned"
    /\ first_run = None
    /\ first_run' = Some([mapping |-> project_path_map,
                          stats   |-> get_mapping_stats(project_path_map)])
    /\ project_path_map' = NoMap
    /\ docs_with_filenames_by_project' = GroupDocs(doc_records)
    /\ idx' = 1
    /\ pc' = "loop"
    /\ log' = <<>>
    /\ calls' = 1
    /\ UNCHANGED <<store, projects, doc_records, workers>>
    /\ UNCHANGED pipeline_vars

NextTwoRuns ==
    \/ FirstCall
    \/ SkipProject
    \/ MapProjectNoFault
    \/ Return
    \/ RunAgain

SpecTwoRuns == Init /\ [][NextTwoRuns]_vars

(***************************************************************************)
(* Vocabulary of the properties.                                           *)
(***************************************************************************)
\* the projects the loop of the current call has finished with
Processed == 1..(idx - 1)

\* the candidates of a project in priority order, the fallback folder left out
Candidates(project) ==
    SelectSeq(unique_paths(paths_to_check(project.project_name,
                                          sanitize_project_name(project.project_name))),
              LAMBDA p : p # mailroom_path)

\* a qualifying document of project id P: project reference present and equal
\* to P, filename present and non-empty after trimming
Qualifying(doc, P) ==
    /\ doc.project_id # None
    /\ Val(doc.project_id) = P
    /\ doc.filename # None
    /\ Strip(Val(doc.filename)) # ""

QualifyingDocs(P) == SelectSeq(doc_records, LAMBDA d : Qualifying(d, P))

MapEntry(pid) ==
    IF pid \in DOMAIN project_path_map THEN Some(project_path_map[pid]) ELSE None

LogOf(pid) == SelectSeq(log, LAMBDA e : e.project_id = pid)

\* a request of the given kind for path was issued for the project and ended in one of outcomes
Answered(pid, kind, path, outcomes) ==
    \E j \in 1..Len(log) :
        /\ log[j].project_id = pid
        /\ log[j].kind = kind
        /\ log[j].path = path
        /\ log[j].outcome \in outcomes

C2_NoFalseMapping ==
    calls <= 1 =>
        \A p \in DOMAIN project_path_map :
            \E i \in 1..Len(doc_records) : Qualifying(doc_records[i], p)

\* a run that mapped one project and left out another whose folder exists
\* and whose only documents have no usable filename
C2_Witness ==
    /\ pc = "returned"
    /\ DOMAIN project_path_map # {}
    /\ \E i \in 1..Len(projects) :
           /\ projects[i].id \notin DOMAIN project_path_map
           /\ ListBlobsNonEmpty(Root \o projects[i].project_name)
           /\ \E j \in 1..Len(doc_records) : doc_records[j].project_id = Some(projects[i].id)
           /\ QualifyingDocs(projects[i].id) = <<>>

(***************************************************************************)
(* C3: a project of the list without qualifying documents is skipped:      *)
(* no store request is issued for it and it is not in the mapping.         *)
(***************************************************************************)
C3_SkippedProjectNeverMapped ==
    \A i \in 1..Len(projects) :
        QualifyingDocs(projects[i].id) = <<>> =>
            /\ LogOf(projects[i].id) = <<>>
            /\ MapEntry(projects[i].id) = None

(***************************************************************************)
(* C4: for every project of the list, whatever its integer id (0           *)
(* included), the documents the code groups under its id are exactly its   *)
(* qualifying documents, and a project with a qualifying document is       *)
(* probed.                                                                 *)
(***************************************************************************)
C4_GroupedDocsAreTheQualifyingDocs ==
    /\ \A i \in 1..Len(projects) :
           DocsWithFiles(projects[i].id) = QualifyingDocs(projects[i].id)
    /\ \A i \in Processed :
           QualifyingDocs(projects[i].id) # <<>> => LogOf(projects[i].id) # <<>>

(***************************************************************************)
(* C5 as stated: a project none of whose candidates exists in the store is *)
(* mapped to the fallback folder as soon as the store holds the file of    *)
(* any one of its qualifying documents under the fallback folder.          *)
(***************************************************************************)
NoCandidateExists(project) ==
    \A k \in 1..Len(Candidates(project)) : ~ListBlobsNonEmpty(Candidates(project)[k])

MailroomBlob(doc) == mailroom_prefix \o Val(doc.filename)

C5_AnyQualifyingFileMapsToFallback ==
    \A i \in Processed :
        LET project == projects[i]
            docs    == QualifyingDocs(project.id)
        IN  ( /\ NoCandidateExists(project)
              /\ \E j \in 1..Len(docs) : BlobExists(MailroomBlob(docs[j])) )
            => MapEntry(project.id) = Some(mailroom_path)

(***************************************************************************)
(* C5 amended: the fallback object check is issued only for the first      *)
(* three qualifying documents of the project; when it answers true for one *)
(* of them the project is mapped to the fallback folder; and it does       *)
(* answer true when no candidate exists, no request of the project failed  *)
(* and the store holds the file of one of those three documents.           *)
(***************************************************************************)
FirstQualifying(P) ==
    SubSeq(QualifyingDocs(P), 1,
           IF Len(QualifyingDocs(P)) < SampleSize THEN Len(QualifyingDocs(P)) ELSE SampleSize)

Probed(pid) == LogOf(pid) # <<>>

NoErrorFor(pid) == \A j \in 1..Len(log) : log[j].project_id = pid => log[j].outcome # "error"

C5_SampledFileMapsToFallback ==
    \A i \in Processed :
        LET project == projects[i]
            first   == FirstQualifying(project.id)
            sampled == { MailroomBlob(first[j]) : j \in 1..Len(first) }
        IN  /\ \A j \in 1..Len(log) :
                   (log[j].project_id = project.id /\ log[j].kind = "blob") =>
                       /\ log[j].path \in sampled
                       /\ log[j].outcome = "hit" => MapEntry(project.id) = Some(mailroom_path)
            /\ ( /\ Probed(project.id)
                 /\ NoErrorFor(project.id)
                 /\ NoCandidateExists(project)
                 /\ \E b \in sampled : BlobExists(b) )
               => MapEntry(project.id) = Some(mailroom_path)

\* the second sampled file is found after the first one missed
C5_Witness ==
    /\ pc = "returned"
    /\ \E j \in 2..Len(log) :
          /\ log[j].kind = "blob" /\ log[j].outcome = "hit"
          /\ log[j - 1].kind = "blob" /\ log[j - 1].outcome = "miss"
          /\ MapEntry(log[j].project_id) = Some(mailroom_path)

(***************************************************************************)
(* C6: a prefix probe that fails with an error counts as a miss of that    *)
(* probe alone: the next candidate in priority order is probed next (after *)
(* the last candidate, the fallback check), a later candidate that answers *)
(* true is selected, every project with documents is still processed, and  *)
(* a project none of whose own requests failed is resolved as on a store   *)
(* without failures.                                                       *)
(***************************************************************************)
IndexIn(seq, x) == CHOOSE k \in 1..Len(seq) : seq[k] = x

C6_ProbeErrorIsOneMiss ==
    /\ \A i \in Processed :
          LET project == projects[i]
              cands   == Candidates(project)
              L       == LogOf(project.id)
          IN  /\ \A j \in 1..Len(L) :
                     (L[j].kind = "prefix" /\ L[j].outcome = "error") =>
                         /\ j < Len(L)
                         /\ IF IndexIn(cands, L[j].path) < Len(cands)
                            THEN /\ L[j + 1].kind = "prefix"
                                 /\ L[j + 1].path = cands[IndexIn(cands, L[j].path) + 1]
                            ELSE L[j + 1].kind = "blob"
                         /\ \A j2 \in (j + 1)..Len(L) :
                                (L[j2].kind = "prefix" /\ L[j2].outcome = "hit") =>
                                    MapEntry(project.id) = Some(L[j2].path)
              /\ DocsWithFiles(project.id) # <<>> => Probed(project.id)
              /\ (DocsWithFiles(project.id) # <<>> /\ NoErrorFor(project.id)) =>
                     LET r == ResolveProject(project, DocsWithFiles(project.id), {})
                     IN  MapEntry(project.id) = r.best /\ L = r.log
    /\ pc = "returned" => Processed = 1..Len(projects)

\* the probe of root/F failed, root/F (1) was probed next and taken, and the
\* other project of the run was resolved to its folder
C6_Witness ==
    /\ pc = "returned"
    /\ Answered(1, "prefix", Root \o NameF, {"error"})
    /\ MapEntry(1) = Some(NumberedPath(NameF, 1))
    /\ Answered(2, "prefix", Root \o sanitize_project_name(NameOC), {"hit"})
    /\ MapEntry(2) = Some(Root \o sanitize_project_name(NameOC))

(***************************************************************************)
(* C7: an error of the existence check of one fallback sample is a miss of *)
(* that sample alone: the next sample is still checked, and the project is *)
(* fallback-mapped when a later sample is in the store.                    *)
(***************************************************************************)
BlobEntriesUpTo(L, j) == Len(SelectSeq(SubSeq(L, 1, j), LAMBDA e : e.kind = "blob"))

C7_SampleErrorIsOneMiss ==
    \A i \in Processed :
        LET project == projects[i]
            L       == LogOf(project.id)
            files   == sample_files(DocsWithFiles(project.id))
        IN  \A j \in 1..Len(L) :
                ( /\ L[j].kind = "blob"
                  /\ L[j].outcome = "error"
                  /\ BlobEntriesUpTo(L, j) < Len(files) )
                => /\ j < Len(L)
                   /\ L[j + 1].kind = "blob"
                   /\ L[j + 1].path = mailroom_prefix \o files[BlobEntriesUpTo(L, j) + 1]
                   /\ (\E k \in (BlobEntriesUpTo(L, j) + 1)..Len(files) :
                          BlobExists(mailroom_prefix \o files[k]))
                      => MapEntry(project.id) = Some(mailroom_path)

(***************************************************************************)
(* C8: the mapping a call returns holds only entries resolved by that      *)
(* call: each key is a project of the call's list and its path is one a    *)
(* request of that call answered true for.                                 *)
(***************************************************************************)
ResolvedByThisCall(pid) ==
    /\ \E i \in 1..Len(projects) : projects[i].id = pid
    /\ \/ Answered(pid, "prefix", project_path_map[pid], {"hit"})
       \/ /\ project_path_map[pid] = mailroom_path
          /\ \E j \in 1..Len(log) :
                log[j].project_id = pid /\ log[j].kind = "blob" /\ log[j].outcome = "hit"

C8_MappingRecomputedFromScratch ==
    pc = "returned" => \A pid \in DOMAIN project_path_map : ResolvedByThisCall(pid)

(***************************************************************************)
(* C9: a project with qualifying documents all of whose candidates and     *)
(* sampled fallback files were probed and are missing has no entry in the  *)
(* mapping.                                                                *)
(***************************************************************************)
AllMissed(project) ==
    /\ \A k \in 1..Len(Candidates(project)) :
           Answered(project.id, "prefix", Candidates(project)[k], {"miss"})
    /\ \A j \in 1..Len(FirstQualifying(project.id)) :
           Answered(project.id, "blob", MailroomBlob(FirstQualifying(project.id)[j]), {"miss"})

C9_UnmappedHasNoEntry ==
    \A i \in Processed :
        (QualifyingDocs(projects[i].id) # <<>> /\ AllMissed(projects[i])) =>
            MapEntry(projects[i].id) = None

(***************************************************************************)
(* C10: once a candidate probe of a project has answered true, no later    *)
(* request of the run, prefix probe or fallback file check, is for that    *)
(* project.                                                                *)
(***************************************************************************)
C10_NoRequestAfterHit ==
    \A j \in 1..Len(log) :
        (log[j].kind = "prefix" /\ log[j].outcome = "hit") =>
            \A j2 \in (j + 1)..Len(log) : log[j2].project_id # log[j].project_id

\* the first project matched a candidate while one of its files lies in the
\* mailroom, and the run went on with requests for the next project only
C10_Witness ==
    /\ pc = "returned"
    /\ \E j \in 1..Len(log) :
          /\ log[j].kind = "prefix" /\ log[j].outcome = "hit"
          /\ j < Len(log)
          /\ \E d \in 1..Len(DocsWithFiles(log[j].project_id)) :
                BlobExists(MailroomBlob(DocsWithFiles(log[j].project_id)[d]))

(***************************************************************************)
(* C11: per-project state machine.  A project of the list is not           *)
(* considered until the loop reaches it; it then ends in exactly one of    *)
(* mapped (entry = the candidate that answered true), fallback-mapped      *)
(* (entry = the fallback folder) or unmapped (no entry), or it is skipped, *)
(* without any request and without an entry, and that only when it has no  *)
(* qualifying document.  Once a project has reached such a state, its      *)
(* state and its mapping entry stay as they are for the rest of the run.   *)
(***************************************************************************)
HitOf(pid, kind) ==
    { log[j].path : j \in { k \in 1..Len(log) :
          log[k].project_id = pid /\ log[k].kind = kind /\ log[k].outcome = "hit" } }

ProjectState(i) ==
    IF i \notin Processed THEN "not-considered"
    ELSE IF LogOf(projects[i].id) = <<>> THEN "skipped"
    ELSE IF HitOf(projects[i].id, "prefix") # {} THEN "mapped"
    ELSE IF HitOf(projects[i].id, "blob") # {} THEN "fallback-mapped"
    ELSE "unmapped"

EntryFitsState(i) ==
    LET project == projects[i]
        state   == ProjectState(i)
    IN  /\ state = "not-considered" =>
               LogOf(project.id) = <<>> /\ MapEntry(project.id) = None
        /\ state = "skipped" =>
               QualifyingDocs(project.id) = <<>> /\ MapEntry(project.id) = None
        /\ state = "mapped" =>
               /\ \E path \in HitOf(project.id, "prefix") :
                      /\ HitOf(project.id, "prefix") = {path}
                      /\ MapEntry(project.id) = Some(path)
                      /\ \E k \in 1..Len(Candidates(project)) : Candidates(project)[k] = path
               /\ HitOf(project.id, "blob") = {}
        /\ state = "fallback-mapped" => MapEntry(project.id) = Some(mailroom_path)
        /\ state = "unmapped" => MapEntry(project.id) = None

TerminalStateKept ==
    (pc = "loop" /\ pc' # "idle" /\ projects' = projects) =>
        \A i \in Processed :
            /\ ProjectState(i)' = ProjectState(i)
            /\ MapEntry(projects[i].id)' = MapEntry(projects[i].id)

C11_ProjectStateMachine ==
    /\ [](\A i \in 1..Len(projects) : EntryFitsState(i))
    /\ [][TerminalStateKept]_vars

(***************************************************************************)
(* C12: the resolutions of the projects are independent.  The entry of     *)
(* each project in the final mapping is the one a run on that project      *)
(* alone, with its own documents alone, yields on the same store; and the  *)
(* final mapping of the interleaved per-project processes equals the       *)
(* mapping of the sequential run on the project list taken in any order.   *)
(***************************************************************************)
Orders(n) == { q \in [1..n -> 1..n] : \A a, b \in 1..n : q[a] = q[b] => a = b }

Reordered(ps, q) == [k \in 1..Len(ps) |-> ps[q[k]]]

OwnDocs(pid) == SelectSeq(doc_records, LAMBDA d : d.project_id = Some(pid))

EntryIn(map, pid) == IF pid \in DOMAIN map THEN Some(map[pid]) ELSE None

C12_ResolutionIsIndependent ==
    pc = "returned" =>
        /\ \A q \in Orders(Len(projects)) :
               project_path_map = build_project_mapping(NoMap, Reordered(projects, q), doc_records)
        /\ \A i \in 1..Len(projects) :
               MapEntry(projects[i].id) =
                   EntryIn(build_project_mapping(NoMap, <<projects[i]>>, OwnDocs(projects[i].id)),
                           projects[i].id)

\* two processes: the second project of the list was resolved first, and
\* both projects are in the final mapping, at different paths
C12_Witness ==
    /\ pc = "returned"
    /\ Len(projects) = 2
    /\ Len(log) > 0
    /\ log[1].project_id = projects[2].id
    /\ DOMAIN project_path_map = {projects[1].id, projects[2].id}
    /\ project_path_map[projects[1].id] # project_path_map[projects[2].id]

RequestsOf(pid, kind) == Len(SelectSeq(log, LAMBDA e : e.project_id = pid /\ e.kind = kind))

WithinBudget ==
    \A i \in 1..Len(projects) :
        /\ RequestsOf(projects[i].id, "prefix") <= 24
        /\ RequestsOf(projects[i].id, "blob") <= 3

ReturnsMapping ==
    pc = "returned" =>
        \A pid \in DOMAIN project_path_map :
            \E i \in 1..Len(projects) :
                /\ projects[i].id = pid
                /\ \/ project_path_map[pid] = mailroom_path
                   \/ \E k \in 1..Len(Candidates(projects[i])) :
                          project_path_map[pid] = Candidates(projects[i])[k]

C14_TerminatesWithinBudget ==
    /\ <>(pc = "returned")
    /\ [](WithinBudget /\ ReturnsMapping)

\* a project with four documents with filenames used the whole budget, one
\* of its requests failed, and the call returned
C14_Witness ==
    /\ pc = "returned"
    /\ Len(projects) = 1
    /\ Len(DocsWithFiles(projects[1].id)) > 3
    /\ RequestsOf(projects[1].id, "prefix") = 24
    /\ RequestsOf(projects[1].id, "blob") = 3
    /\ Errors > 0

(***************************************************************************)
(* C15: the candidate list of a project is, in this order under the root:  *)
(* raw name; sanitized name; raw name + " (1)" .. " (9)"; sanitized name + *)
(* " (1)" .. " (9)"; "Solar - " + raw; "Solar - " + sanitized;             *)
(* "Solar - PNC " + raw; "Solar - PNC " + sanitized; and last the fallback *)
(* folder.  The prefix probes of a project follow that order, and the      *)
(* fallback folder is never passed to the prefix probe.                    *)
(***************************************************************************)
Generated(project) ==
    paths_to_check(project.project_name, sanitize_project_name(project.project_name))

InClaimedOrder(project) ==
    LET raw == project.project_name
        san == sanitize_project_name(raw)
        g   == Generated(project)
    IN  /\ Len(g) = 25
        /\ g[1] = "docs/Bennett Legal/" \o raw
        /\ g[2] = "docs/Bennett Legal/" \o san
        /\ \A k \in 1..9 : g[2 + k]  = "docs/Bennett Legal/" \o raw \o " (" \o Digits[k] \o ")"
        /\ \A k \in 1..9 : g[11 + k] = "docs/Bennett Legal/" \o san \o " (" \o Digits[k] \o ")"
        /\ g[21] = "docs/Bennett Legal/Solar - " \o raw
        /\ g[22] = "docs/Bennett Legal/Solar - " \o san
        /\ g[23] = "docs/Bennett Legal/Solar - PNC " \o raw
        /\ g[24] = "docs/Bennett Legal/Solar - PNC " \o san
        /\ g[25] = "docs/Bennett Legal/zzz_mailroom_no_project_assigned"

\* the position at which a path is first generated
FirstAt(g, path) == CHOOSE k \in 1..Len(g) : g[k] = path /\ \A j \in 1..(k - 1) : g[j] # path

PrefixProbes(pid) == SelectSeq(log, LAMBDA e : e.project_id = pid /\ e.kind = "prefix")

C15_CandidateOrder ==
    \A i \in 1..Len(projects) :
        LET probes == PrefixProbes(projects[i].id)
            g      == Generated(projects[i])
        IN  /\ InClaimedOrder(projects[i])
            /\ \A j \in 1..Len(probes) :
                   /\ probes[j].path # mailroom_path
                   /\ \E k \in 1..Len(g) : g[k] = probes[j].path
            /\ \A j \in 1..(Len(probes) - 1) :
                   FirstAt(g, probes[j].path) < FirstAt(g, probes[j + 1].path)

\* a project whose name sanitizing changes has had all its 24 candidates probed
C15_Witness ==
    /\ pc = "returned"
    /\ Len(projects) = 1
    /\ sanitize_project_name(projects[1].project_name) # projects[1].project_name
    /\ Len(PrefixProbes(projects[1].id)) = 24

(***************************************************************************)
(* C16 as stated: when every prefix probe of a project has missed, the     *)
(* probed sequence is the generated list without the fallback folder, each *)
(* distinct path once, at the place of its first occurrence; a path that   *)
(* is both a raw-name and a sanitized-name variant is first generated as a *)
(* raw-name variant; and when sanitizing leaves the name unchanged exactly *)
(* 12 paths are probed.                                                    *)
(***************************************************************************)
FirstOccurrences(g) ==
    SelectSeq([k \in 1..Len(g) |-> [at |-> k, path |-> g[k]]],
              LAMBDA c : FirstAt(g, c.path) = c.at /\ c.path # mailroom_path)

\* positions of the raw-name variants in the generated list
RawPositions == {1} \cup 3..11 \cup {21, 23}

NoHit(pid) == \A j \in 1..Len(log) :
    (log[j].project_id = pid /\ log[j].kind = "prefix") => log[j].outcome # "hit"

StableDedup(project) ==
    LET g      == Generated(project)
        probes == PrefixProbes(project.id)
        firsts == FirstOccurrences(g)
    IN  /\ Len(probes) = Len(firsts)
        /\ \A j \in 1..Len(probes) : probes[j].path = firsts[j].path
        /\ \A j, j2 \in 1..Len(probes) : probes[j].path = probes[j2].path => j = j2
        /\ \A k \in RawPositions : FirstAt(g, g[k]) \in RawPositions

AllProbed(i) == i \in Processed /\ Probed(projects[i].id) /\ NoHit(projects[i].id)

C16_StableDedupLeavesTwelve ==
    \A i \in 1..Len(projects) :
        AllProbed(i) =>
            /\ StableDedup(projects[i])
            /\ sanitize_project_name(projects[i].project_name) = projects[i].project_name
                   => Len(PrefixProbes(projects[i].id)) = 12

(***************************************************************************)
(* C16 amended: the same, except that a project named exactly like the     *)
(* fallback folder has the fallback path as its raw-name candidate, which  *)
(* is not probed: 11 paths are probed for it, 12 for every other name that *)
(* sanitizing leaves unchanged.                                            *)
(***************************************************************************)
C16_StableDedup ==
    \A i \in 1..Len(projects) :
        AllProbed(i) =>
            /\ StableDedup(projects[i])
            /\ sanitize_project_name(projects[i].project_name) = projects[i].project_name
                   => Len(PrefixProbes(projects[i].id)) =
                          IF projects[i].project_name = MailroomName THEN 11 ELSE 12

\* a name that sanitizing leaves unchanged: every candidate is generated
\* twice and probed once
C16_Witness ==
    /\ pc = "returned"
    /\ Len(projects) = 1
    /\ projects[1].project_name = "a_a"
    /\ AllProbed(1)
    /\ Len(PrefixProbes(projects[1].id)) = 12

(***************************************************************************)
(* C17: the fallback file checks of a project come after the prefix probes *)
(* of all its non-fallback candidates, none of which answered true; they   *)
(* ask for <fallback folder>/<filename> of the first qualifying documents  *)
(* of the project, in document input order, at most 3 of them; a check     *)
(* that answers true is the last one, and unless a request failed the      *)
(* checks go on until one answers true or the first 3 qualifying documents *)
(* are exhausted.                                                          *)
(***************************************************************************)
FallbackChecks(pid) == SelectSeq(log, LAMBDA e : e.project_id = pid /\ e.kind = "blob")

C17_FallbackAfterAllCandidates ==
    \A i \in Processed :
        LET project == projects[i]
            L       == LogOf(project.id)
            cands   == Candidates(project)
            checks  == FallbackChecks(project.id)
            first   == FirstQualifying(project.id)
        IN  checks # <<>> =>
                /\ Len(L) = Len(cands) + Len(checks)
                /\ \A k \in 1..Len(cands) :
                       /\ L[k].kind = "prefix"
                       /\ L[k].path = cands[k]
                       /\ L[k].outcome # "hit"
                /\ \A j \in 1..Len(checks) : L[Len(cands) + j] = checks[j]
                /\ Len(checks) <= 3
                /\ Len(checks) <= Len(first)
                /\ \A j \in 1..Len(checks) :
                       /\ checks[j].path =
                              "docs/Bennett Legal/zzz_mailroom_no_project_assigned/"
                                  \o Val(first[j].filename)
                       /\ checks[j].outcome = "hit" => j = Len(checks)
                /\ (NoErrorFor(project.id) /\ checks[Len(checks)].outcome # "hit")
                       => Len(checks) = Len(first)

\* four qualifying documents: the files of the first two are missing, the
\* third is found and the fourth is not asked for
C17_Witness ==
    /\ pc = "returned"
    /\ Len(projects) = 1
    /\ Len(QualifyingDocs(projects[1].id)) > 3
    /\ Len(FallbackChecks(projects[1].id)) = 3
    /\ FallbackChecks(projects[1].id)[3].outcome = "hit"

(***************************************************************************)
(* C18: sanitizing is idempotent: for every project name x,                *)
(* sanitize_project_name(sanitize_project_name(x)) =                       *)
(* sanitize_project_name(x).                                               *)
(***************************************************************************)
C18_SanitizeIdempotent ==
    \A i \in 1..Len(projects) :
        sanitize_project_name(sanitize_project_name(projects[i].project_name))
            = sanitize_project_name(projects[i].project_name)

\* a name with a run of quotes and a slash was sanitized and its sanitized
\* folder probed
C18_Witness ==
    /\ pc = "returned"
    /\ Len(projects) = 1
    /\ projects[1].project_name = "\"\"/"
    /\ Answered(1, "prefix", "docs/Bennett Legal/__", {"miss"})

(***************************************************************************)
(* C19: for every input string sanitize_project_name returns the input     *)
(* with each maximal run of double quotes replaced by one underscore and   *)
(* each slash replaced by one underscore, every other character unchanged  *)
(* and in order; the result holds no double quote and no slash.            *)
(***************************************************************************)
CharAt(s, k) == SubSeq(s, k, k)

\* what position k of the input contributes to the result
Contribution(s, k) ==
    IF CharAt(s, k) = "\""
    THEN (IF k > 1 /\ CharAt(s, k - 1) = "\"" THEN "" ELSE "_")
    ELSE IF CharAt(s, k) = "/" THEN "_"
    ELSE CharAt(s, k)

RECURSIVE ContributionsUpTo(_, _)
ContributionsUpTo(s, k) ==
    IF k = 0 THEN "" ELSE ContributionsUpTo(s, k - 1) \o Contribution(s, k)

HasChar(s, c) == \E k \in 1..Len(s) : CharAt(s, k) = c

C19_SanitizeReplacesQuotesAndSlashes ==
    \A i \in 1..Len(projects) :
        LET x == projects[i].project_name
            y == sanitize_project_name(x)
        IN  /\ y = ContributionsUpTo(x, Len(x))
            /\ ~HasChar(y, "\"")
            /\ ~HasChar(y, "/")

\* two runs of quotes around a letter
C19_Witness ==
    /\ pc = "returned"
    /\ Len(projects) = 1
    /\ projects[1].project_name = "\"a\""
    /\ Answered(1, "prefix", "docs/Bennett Legal/_a_", {"miss"})

(***************************************************************************)
(* C20: in every state of the mapping get_mapping_stats returns            *)
(* total_projects_mapped = the number of entries and unique_paths = the    *)
(* number of distinct mapped paths; so 0 <= unique_paths <=                *)
(* total_projects_mapped, and unique_paths = 0 exactly when the mapping is *)
(* empty.                                                                  *)
(***************************************************************************)
\* the ids of the Project table, in ascending order
IdsInOrder == <<0, 1, 2>>

\* the entries among the first k ids
RECURSIVE EntriesUpTo(_)
EntriesUpTo(k) ==
    IF k = 0 THEN 0
    ELSE EntriesUpTo(k - 1) + (IF MapEntry(IdsInOrder[k]) # None THEN 1 ELSE 0)

\* the entries among the first k ids whose path no earlier id is mapped to
RECURSIVE DistinctPathsUpTo(_)
DistinctPathsUpTo(k) ==
    IF k = 0 THEN 0
    ELSE DistinctPathsUpTo(k - 1)
         + (IF /\ MapEntry(IdsInOrder[k]) # None
               /\ \A j \in 1..(k - 1) : MapEntry(IdsInOrder[j]) # MapEntry(IdsInOrder[k])
            THEN 1 ELSE 0)

C20_StatsCountEntriesAndPaths ==
    LET stats == get_mapping_stats(project_path_map)
    IN  /\ DOMAIN project_path_map \subseteq { IdsInOrder[k] : k \in 1..Len(IdsInOrder) }
        /\ stats.total_projects_mapped = EntriesUpTo(Len(IdsInOrder))
        /\ stats.unique_paths = DistinctPathsUpTo(Len(IdsInOrder))
        /\ 0 <= stats.unique_paths
        /\ stats.unique_paths <= stats.total_projects_mapped
        /\ stats.unique_paths = 0 <=> project_path_map = NoMap

\* two projects are mapped to the fallback folder: two entries, one path
C20_Witness ==
    /\ DOMAIN project_path_map = {1, 2}
    /\ project_path_map[1] = mailroom_path
    /\ project_path_map[2] = mailroom_path
    /\ get_mapping_stats(project_path_map) = [total_projects_mapped |-> 2, unique_paths |-> 1]

(***************************************************************************)
(* URL generation on a mapper, before and after its run, with the bucket   *)
(* name of the configuration the mapper was constructed with.              *)
(***************************************************************************)
UrlEnvironments == {NoEnv, [GCS_BUCKET_NAME |-> "test-bucket"]}

UrlProjectIds == 0..3

UrlFilenames == {FileF, ""}

InitUrls ==
    /\ store \in Stores
    /\ MapperConstructed
    /\ environ \in UrlEnvironments
    /\ config = load_config_from_env(environ)
    /\ urls = None
    /\ updater = NoUpdater
    /\ doc_table = <<>>
    /\ migration_log = <<>>
    /\ migrator = NoMigrator
    /\ target = <<>>
    /\ analysis = None

\* generate_document_url(project_id, filename) and generate_public_url(project_id, filename)
GenerateUrls ==
    /\ pc \in {"idle", "returned"}
    /\ \E project_id \in UrlProjectIds, filename \in UrlFilenames :
          urls' = Some([project_id |-> project_id,
                        filename |-> filename,
                        document_url |-> generate_document_url(project_path_map,
                                            Val(config).gcs.bucket_name, project_id, filename),
                        public_url |-> generate_public_url(project_path_map,
                                            Val(config).gcs.bucket_name, project_id, filename)])
    /\ UNCHANGED mapper_vars
    /\ UNCHANGED <<environ, config, updater, doc_table, migration_log, migrator,
                   target, analysis>>

NextUrls ==
    \/ FaultyCall
    \/ SkipProject
    \/ MapProjectNoFault
    \/ Return
    \/ GenerateUrls

SpecUrls == InitUrls /\ [][NextUrls]_vars

\* the bucket name the mapper formats into its URLs
BucketName == IF "GCS_BUCKET_NAME" \in DOMAIN environ
              THEN environ["GCS_BUCKET_NAME"] ELSE "bennett_bucket1"

\* the step is a URL generation that returned u
UrlsReturned(u) == urls' = Some(u) /\ urls' # urls

\* C21: a URL generation returns None for both URLs exactly when the project
\* id has no entry in the mapping; otherwise it returns
\* gs://<bucket>/<mapped path>/<filename> and
\* https://storage.googleapis.com/<bucket>/<mapped path>/<filename>; and the
\* step leaves the mapping as it was.
C21_UrlsFollowTheMapping ==
    [][\A u \in urls' :
          UrlsReturned(u) =>
            /\ project_path_map' = project_path_map
            /\ (u.document_url = None) <=> (u.project_id \notin DOMAIN project_path_map)
            /\ (u.public_url = None) <=> (u.project_id \notin DOMAIN project_path_map)
            /\ u.project_id \in DOMAIN project_path_map =>
                 /\ u.document_url =
                      {"gs://" \o BucketName \o "/" \o project_path_map[u.project_id]
                               \o "/" \o u.filename}
                 /\ u.public_url =
                      {"https://storage.googleapis.com/" \o BucketName \o "/"
                               \o project_path_map[u.project_id] \o "/" \o u.filename}]_vars

\* a URL was generated for a mapped project of a bucket named in the
\* environment, and another for a project without an entry
C21_Witness ==
    /\ pc = "returned"
    /\ BucketName = "test-bucket"
    /\ \E u \in urls :
          /\ u.project_id \in DOMAIN project_path_map
          /\ u.document_url = {"gs://test-bucket/docs/Bennett Legal/Foo/f.pdf"}
          /\ u.public_url =
               {"https://storage.googleapis.com/test-bucket/docs/Bennett Legal/Foo/f.pdf"}
          /\ \E q \in UrlProjectIds : q \notin DOMAIN project_path_map

(***************************************************************************)
(* Configuration loading: the environment is what os.environ holds once    *)
(* load_dotenv has read the file, which sets the variables the file names  *)
(* and the process does not have yet.                                      *)
(***************************************************************************)
\* the file of test_load_config_with_minimal_env
MinimalEnv ==
    [MSSQL_SERVER |-> "test-server",
     MSSQL_USERNAME |-> "test-user",
     MSSQL_PASSWORD |-> "test-pass",
     SUPABASE_URL |-> "https://test.supabase.co",
     SUPABASE_SERVICE_ROLE_KEY |-> "test-service-key"]

RequiredSettings ==
    {NoEnv, MinimalEnv, [MSSQL_SERVER |-> "test-server"]}

OptionalSettings ==
    [GCS_PROJECT_ID |-> {"webapp-466015", "my-project"},
     GCS_BUCKET_NAME |-> {"test-bucket"},
     MIGRATION_BATCH_SIZE |-> {"1000", " 50 ", "5x", ""},
     MIGRATION_DRY_RUN |-> {"TRUE", "false"}]

OptionalEnvs ==
    UNION { { e \in [names -> UNION {OptionalSettings[n] : n \in names}] :
                \A n \in names : e[n] \in OptionalSettings[n] } :
            names \in SUBSET DOMAIN OptionalSettings }

Environments == { r @@ o : r \in RequiredSettings, o \in OptionalEnvs }

InitConfig ==
    /\ store = {}
    /\ MapperConstructed
    /\ environ \in Environments
    /\ config = None
    /\ urls = None
    /\ updater = NoUpdater
    /\ doc_table = <<>>
    /\ migration_log = <<>>
    /\ migrator = NoMigrator
    /\ target = <<>>
    /\ analysis = None

\* self.config = load_config_from_env(config_file)
LoadConfig ==
    /\ config = None
    /\ config' = load_config_from_env(environ)
    /\ UNCHANGED mapper_vars
    /\ UNCHANGED <<environ, urls, updater, doc_table, migration_log, migrator,
                   target, analysis>>

NextConfig == LoadConfig

SpecConfig == InitConfig /\ [][NextConfig]_vars

\* C22: a configuration loaded from an environment that sets only the
\* required MSSQL and Supabase variables has the GCS project id
\* 'webapp-466015' and the batch size 1000.
C22_MinimalEnvDefaults ==
    \A c \in config :
        DOMAIN environ = DOMAIN MinimalEnv =>
            /\ c.gcs.project_id = "webapp-466015"
            /\ c.batch_size = 1000

(***************************************************************************)
(* A DocumentURLUpdater on a table "doc": update_all_document_urls is      *)
(* called up to MaxCalls times on the same object.  A request to Supabase  *)
(* executes or raises.                                                     *)
(***************************************************************************)
UpdaterRows ==
    {[id |-> 1, filename |-> FileF, project_id |-> 1],
     [id |-> 2, filename |-> "", project_id |-> 1],
     [id |-> 3, filename |-> FileG],
     [ID |-> 4, Filename |-> FileF, ProjectID |-> 2],
     [id |-> 5, filename |-> FileF, projectid |-> 3]}

UpdaterTables ==
    { [i \in 1..Len(l) |-> [data |-> l[i], written |-> None]] :
        l \in ListsOver(UpdaterRows, MaxDocs) }

UpdaterMaps ==
    {NoMap, [p \in {1, 2} |-> IF p = 1 THEN Root \o NameF ELSE mailroom_path]}

UpdaterEnvironments == {NoEnv, [MIGRATION_DRY_RUN |-> "true"]}

Outcomes == {"executes", "raises"}

InitUpdater ==
    /\ store = {}
    /\ MapperConstructed
    /\ environ \in UpdaterEnvironments
    /\ config = load_config_from_env(environ)
    /\ urls = None
    /\ \E m \in UpdaterMaps : updater = NewUpdater(Val(config), m)
    /\ doc_table \in UpdaterTables
    /\ migration_log = <<>>
    /\ migrator = NoMigrator
    /\ target = <<>>
    /\ analysis = None

\* lines 27-46 and 60-65: the call up to the loop, or up to its return
UpdateAllDocumentUrls ==
    /\ updater.pc \in {"idle", "returned"}
    /\ updater.calls < MaxCalls
    /\ \E outcome \in Outcomes, inserted \in BOOLEAN :
          IF updater.dry_run
          THEN /\ updater' = [updater EXCEPT !.pc = "returned", !.calls = @ + 1]
               /\ UNCHANGED migration_log
          ELSE IF outcome = "raises"
          THEN /\ updater' = [updater EXCEPT !.stats.errors = @ + 1,
                                             !.pc = "returned", !.calls = @ + 1]
               /\ migration_log' =
                      log_update_error(migration_log, updater.dry_run, None, inserted)
          ELSE IF doc_table = <<>>
          THEN /\ updater' = [updater EXCEPT !.pc = "returned", !.calls = @ + 1]
               /\ UNCHANGED migration_log
          ELSE /\ updater' = [updater EXCEPT !.stats.total_docs = Len(doc_table),
                                             !.fetched = [i \in 1..Len(doc_table) |->
                                                             doc_table[i].data],
                                             !.idx = 1,
                                             !.pc = "loop", !.calls = @ + 1]
               /\ UNCHANGED migration_log
    /\ UNCHANGED mapper_vars
    /\ UNCHANGED <<environ, config, urls, doc_table, migrator, target, analysis>>

\* lines 49-52: update_single_document_url(doc) for the next fetched document
UpdateSingleDocumentUrl ==
    /\ updater.pc = "loop"
    /\ updater.idx <= Len(updater.fetched)
    /\ \E outcome \in Outcomes, inserted \in BOOLEAN :
          LET r == update_single_document_url(updater, doc_table, migration_log,
                                              updater.fetched[updater.idx],
                                              outcome, inserted)
          IN  /\ updater' = [updater EXCEPT !.stats = r.stats, !.idx = @ + 1]
              /\ doc_table' = r.doc_table
              /\ migration_log' = r.migration_log
    /\ UNCHANGED mapper_vars
    /\ UNCHANGED <<environ, config, urls, migrator, target, analysis>>

\* lines 54-57 and 65
UpdateReturn ==
    /\ updater.pc = "loop"
    /\ updater.idx > Len(updater.fetched)
    /\ updater' = [updater EXCEPT !.pc = "returned"]
    /\ UNCHANGED mapper_vars
    /\ UNCHANGED <<environ, config, urls, doc_table, migration_log, migrator,
                   target, analysis>>

NextUpdater ==
    \/ UpdateAllDocumentUrls
    \/ UpdateSingleDocumentUrl
    \/ UpdateReturn

SpecUpdater == InitUpdater /\ [][NextUpdater]_vars

\* the document update_single_document_url is about to be called with
CurrentDoc == updater.fetched[updater.idx]

\* the step is a call of update_single_document_url
SingleUpdateStep == updater.pc = "loop" /\ updater'.idx = updater.idx + 1

\* the claim's documents: filename or project id missing, or no mapping entry
CannotBePlaced(doc) ==
    \/ \A k \in {"filename", "Filename"} : k \notin DOMAIN doc \/ doc[k] = ""
    \/ \A k \in {"projectid", "ProjectID", "project_id"} : k \notin DOMAIN doc
    \/ \A k \in {"projectid", "ProjectID", "project_id"} :
          k \in DOMAIN doc => doc[k] \notin DOMAIN updater.project_gcs_map

\* C23: update_single_document_url, called with a document whose filename
\* or project id is missing or whose project id has no entry in the
\* project-to-path mapping, leaves the doc table and stats.migrated_docs
\* unchanged and adds exactly one to stats.errors.
C23_UnplaceableDocumentIsOneError ==
    [][(SingleUpdateStep /\ CannotBePlaced(CurrentDoc)) =>
          /\ doc_table' = doc_table
          /\ updater'.stats.migrated_docs = updater.stats.migrated_docs
          /\ updater'.stats.errors = updater.stats.errors + 1]_vars

\* a document without a filename and a document of an unmapped project have
\* each been counted as an error, next to a document that was updated
C23_Witness ==
    /\ updater.pc = "returned"
    /\ updater.project_gcs_map # NoMap
    /\ updater.stats.errors = 1
    /\ updater.stats.migrated_docs = 1
    /\ Len(doc_table) = 2
    /\ \E i \in 1..2 : doc_table[i].written = None /\ CannotBePlaced(doc_table[i].data)
    /\ \E i \in 1..2 : doc_table[i].written # None

\* C29: once update_all_document_urls has returned in non-dry-run mode,
\* every fetched document has been counted exactly once, as updated or as
\* an error: stats.migrated_docs + stats.errors = stats.total_docs, also
\* after a second call on the same updater.
C29_EveryDocumentCountedOnce ==
    (updater.pc = "returned" /\ ~updater.dry_run) =>
        updater.stats.migrated_docs + updater.stats.errors = updater.stats.total_docs

(***************************************************************************)
(* A SupabaseMigrator migrating tables: migrate_table is called up to      *)
(* MaxCalls times on the same object, batch by batch.                      *)
(***************************************************************************)
\* the rows SELECT * returns, with the ids they carry
SourceRows == { [i \in 1..n |-> [id |-> i]] : n \in 0..MaxDocs }

SourceTableNames == {"Doc"}

MigratorEnvironments == {NoEnv, [MIGRATION_BATCH_SIZE |-> "1"], [MIGRATION_DRY_RUN |-> "true"]}

\* datetime.now().isoformat() at the n-th failure the migrator records
Timestamp(n) == "t" \o ToString(n)

BatchOutcomes == {"missing", "inserted", "no_data", "not_found", "conflict", "error"}

RecordOutcomes == {"inserted", "no_data", "raises"}

InitMigrator ==
    /\ store = {}
    /\ MapperConstructed
    /\ environ \in MigratorEnvironments
    /\ config = load_config_from_env(environ)
    /\ urls = None
    /\ updater = NoUpdater
    /\ doc_table = <<>>
    /\ migration_log = <<>>
    /\ migrator = NewMigrator(Val(config))
    /\ target = <<>>
    /\ analysis = None

\* lines 27-66 and 95-100: the call up to the loop, or up to its return;
\* found is what the source answers: "rows", "absent" or "raises"
MigrateTable ==
    /\ migrator.pc \in {"idle", "returned"}
    /\ migrator.calls < MaxCalls
    /\ \E table_name \in SourceTableNames, rows \in SourceRows,
          found \in {"rows", "absent", "raises"}, logged \in BOOLEAN :
          IF migrator.dry_run \/ found = "absent"
          THEN /\ migrator' = [migrator EXCEPT !.pc = "returned", !.calls = @ + 1]
               /\ UNCHANGED migration_log
          ELSE IF found = "raises"
          THEN /\ migrator' = [migrator EXCEPT !.stats.errors = @ + 1,
                                               !.pc = "returned", !.calls = @ + 1]
               /\ migration_log' = log_error(migration_log, migrator.dry_run, None,
                                             "table_migration_error", logged)
          ELSE /\ migrator' = [migrator EXCEPT !.stats.total_docs = @ + Len(rows),
                                               !.table_name = table_name,
                                               !.cursor = rows,
                                               !.pc = "loop", !.calls = @ + 1]
               /\ UNCHANGED migration_log
    /\ UNCHANGED mapper_vars
    /\ UNCHANGED <<environ, config, urls, updater, doc_table, target, analysis>>

\* what the insert of a record on its own can do
RecordChoices(table_name, batch_data) ==
    { how \in [1..Len(batch_data) -> RecordOutcomes] :
        \A i \in 1..Len(batch_data) :
            InTarget(target, table_name, batch_data[i]) => how[i] = "raises" }

\* what the insert of the batch can do
BatchChoices(table_name, batch_data) ==
    IF \E i \in 1..Len(batch_data) : InTarget(target, table_name, batch_data[i])
    THEN BatchOutcomes \ {"inserted", "no_data"}
    ELSE BatchOutcomes

\* lines 68-87: one batch is fetched, converted, inserted and counted
MigrateBatch ==
    /\ migrator.pc = "loop"
    /\ migrator.cursor # <<>>
    /\ LET converted_batch == Take(migrator.cursor, migrator.batch_size)
           table_name == lower(migrator.table_name)
       IN  \E outcome \in BatchChoices(table_name, converted_batch),
              how \in RecordChoices(table_name, converted_batch),
              logged \in BOOLEAN :
              LET now == Timestamp(Len(migrator.failed_batches) + 1)
                  r == insert_batch(migrator, target, migration_log, table_name,
                                    converted_batch, outcome, how, now, logged)
              IN  /\ migrator' =
                        [migrator EXCEPT
                            !.stats = [r.stats EXCEPT
                                          !.migrated_docs = @ + Len(converted_batch)],
                            !.failed_batches = r.failed_batches,
                            !.cursor = Drop(migrator.cursor, migrator.batch_size)]
                  /\ target' = r.target
                  /\ migration_log' = r.migration_log
    /\ UNCHANGED mapper_vars
    /\ UNCHANGED <<environ, config, urls, updater, doc_table, analysis>>

\* lines 68-72 and 95-100: reading the next batch raises
MigrateFails ==
    /\ migrator.pc = "loop"
    /\ \E logged \in BOOLEAN :
          /\ migrator' = [migrator EXCEPT !.stats.errors = @ + 1,
                                          !.cursor = <<>>, !.pc = "returned"]
          /\ migration_log' = log_error(migration_log, migrator.dry_run, None,
                                        "table_migration_error", logged)
    /\ UNCHANGED mapper_vars
    /\ UNCHANGED <<environ, config, urls, updater, doc_table, target, analysis>>

\* lines 70-72 and 89-100
MigrateReturn ==
    /\ migrator.pc = "loop"
    /\ migrator.cursor = <<>>
    /\ migrator' = [migrator EXCEPT !.pc = "returned"]
    /\ UNCHANGED mapper_vars
    /\ UNCHANGED <<environ, config, urls, updater, doc_table, migration_log,
                   target, analysis>>

NextMigrator ==
    \/ MigrateTable
    \/ MigrateBatch
    \/ MigrateFails
    \/ MigrateReturn

SpecMigrator == InitMigrator /\ [][NextMigrator]_vars

\* C28: in migrate_table a batch whose insert failed and was recorded in
\* failed_batches is not counted in stats.migrated_docs, and each inserted
\* record is counted exactly once: a step adds to migrated_docs the number
\* of rows it adds to the target, nothing when it records a failed batch,
\* and stats.migrated_docs never exceeds stats.total_docs.
C28_MigratedCountsInsertedRecords ==
    /\ [](migrator.stats.migrated_docs <= migrator.stats.total_docs)
    /\ [][/\ migrator'.stats.migrated_docs - migrator.stats.migrated_docs
                = Len(target') - Len(target)
          /\ Len(migrator'.failed_batches) > Len(migrator.failed_batches) =>
                migrator'.stats.migrated_docs = migrator.stats.migrated_docs]_vars

(***************************************************************************)
(* Retrying failed batches: a fresh migrator whose queue was loaded from a *)
(* failure file (load_failures_from_csv), one retry_failed_batches call.   *)
(***************************************************************************)
MaxBatches == 3

\* the batches a failure file can name: none, one or two records
RetryBatches == {<<>>, <<[id |-> 1]>>, <<[id |-> 1], [id |-> 2]>>}

FailureRecords ==
    { [table_name |-> "doc",
       error_message |-> "No data returned from insert",
       batch_size |-> Len(b),
       failed_at |-> Timestamp(1),
       batch_data |-> b] : b \in RetryBatches }

RetryQueues == ListsOver(FailureRecords, MaxBatches)

InitRetry ==
    /\ store = {}
    /\ MapperConstructed
    /\ environ = NoEnv
    /\ config = load_config_from_env(environ)
    /\ urls = None
    /\ updater = NoUpdater
    /\ doc_table = <<>>
    /\ migration_log = <<>>
    /\ \E q \in RetryQueues :
          migrator = [NewMigrator(Val(config)) EXCEPT !.failed_batches = q]
    /\ target = <<>>
    /\ analysis = None

\* lines 679-686: the call up to the loop over a copy of the queue
RetryFailedBatches ==
    /\ migrator.pc = "idle"
    /\ migrator' = [migrator EXCEPT
                       !.pc = IF migrator.failed_batches = <<>>
                              THEN "returned" ELSE "retrying",
                       !.snapshot = migrator.failed_batches,
                       !.successes = <<>>,
                       !.retry_count = 0,
                       !.calls = @ + 1]
    /\ UNCHANGED mapper_vars
    /\ UNCHANGED <<environ, config, urls, updater, doc_table, migration_log,
                   target, analysis>>

\* the rows of the table once the records have been upserted on their id
RECURSIVE Upserted(_, _, _, _, _)
Upserted(tgt, table_name, batch_data, ok, i) ==
    IF i > Len(batch_data) THEN tgt
    ELSE Upserted(IF i \in ok /\ ~InTarget(tgt, table_name, batch_data[i])
                  THEN Append(tgt, [table |-> table_name, record |-> batch_data[i]])
                  ELSE tgt,
                  table_name, batch_data, ok, i + 1)

\* lines 686-708: one failure of the copy is retried record by record; ok
\* holds the records whose upsert returned data
RetryBatch ==
    /\ migrator.pc = "retrying"
    /\ Len(migrator.successes) < Len(migrator.snapshot)
    /\ LET failure == migrator.snapshot[Len(migrator.successes) + 1]
           table_name == failure.table_name
           batch_data == failure.batch_data
       IN  \E ok \in SUBSET (1..Len(batch_data)) :
              LET successful_records == Cardinality(ok)
              IN  /\ migrator' =
                        [migrator EXCEPT
                            !.retry_count =
                                IF successful_records > 0
                                THEN @ + successful_records ELSE @,
                            !.failed_batches =
                                IF successful_records > 0
                                   /\ successful_records = Len(batch_data)
                                THEN Remove(@, failure) ELSE @,
                            !.successes = Append(@, successful_records)]
                  /\ target' = Upserted(target, table_name, batch_data, ok, 1)
    /\ UNCHANGED mapper_vars
    /\ UNCHANGED <<environ, config, urls, updater, doc_table, migration_log, analysis>>

\* lines 710-711
RetryReturn ==
    /\ migrator.pc = "retrying"
    /\ Len(migrator.successes) = Len(migrator.snapshot)
    /\ migrator' = [migrator EXCEPT !.pc = "returned"]
    /\ UNCHANGED mapper_vars
    /\ UNCHANGED <<environ, config, urls, updater, doc_table, migration_log,
                   target, analysis>>

NextRetry ==
    \/ RetryFailedBatches
    \/ RetryBatch
    \/ RetryReturn

SpecRetry == InitRetry /\ [][NextRetry]_vars

\* the batches of the queue of which a record was not inserted on retry, in
\* the order of the queue
RECURSIVE StillFailing(_, _, _)
StillFailing(queue, inserted, i) ==
    IF i > Len(queue) THEN <<>>
    ELSE (IF inserted[i] < Len(queue[i].batch_data) THEN <<queue[i]>> ELSE <<>>)
             \o StillFailing(queue, inserted, i + 1)

RECURSIVE SumUpTo(_, _)
SumUpTo(counts, i) == IF i = 0 THEN 0 ELSE counts[i] + SumUpTo(counts, i - 1)

\* C24: when retry_failed_batches returns, the queue holds exactly the
\* batches of which at least one record was not inserted on retry, whole
\* and in their original order, and the returned count is the number of
\* records inserted over all retried batches.
C24_QueueKeepsWhatStillFails ==
    migrator.pc = "returned" =>
        /\ migrator.failed_batches =
               StillFailing(migrator.snapshot, migrator.successes, 1)
        /\ migrator.retry_count = SumUpTo(migrator.successes, Len(migrator.successes))

(***************************************************************************)
(* Folders whose names begin alike: a bucket with a folder, a sibling      *)
(* whose name begins with the folder's name, numbered duplicates, and      *)
(* projects named Foo, O'Brien/Case, like the fallback folder, or so that  *)
(* sanitizing gives the fallback folder's name.  Requests do not fail.     *)
(***************************************************************************)
NameFoobar == "Foobar"

\* sanitize_project_name gives MailroomName for it
NameSlashMailroom == "zzz/mailroom_no_project_assigned"

FolderKeys == {
    Root \o NameF \o Object,
    Root \o NameFoobar \o Object,
    NumberedPath(NameF, 1) \o Object,
    NumberedPath(sanitize_project_name(NameOC), 2) \o Object,
    NumberedPath(MailroomName, 1) \o Object,
    mailroom_prefix \o FileF }

FolderStores == SubsetsUpTo(FolderKeys, 2)

FolderProjectRows ==
    { ProjectRecord(1, NameF), ProjectRecord(2, NameOC),
      ProjectRecord(3, MailroomName), ProjectRecord(4, NameSlashMailroom) }

FolderProjectLists == { l \in ListsOver(FolderProjectRows, MaxProjects) : DistinctIds(l) }

\* one document with a filename for each project, or no document at all
FolderDocLists ==
    { <<>>,
      <<DocumentRecord(1, Some(1), Some(FileG)), DocumentRecord(2, Some(2), Some(FileG)),
        DocumentRecord(3, Some(3), Some(FileG)), DocumentRecord(4, Some(4), Some(FileG))>> }

InitFolders ==
    /\ store \in FolderStores
    /\ MapperConstructed
    /\ environ = NoEnv
    /\ config = load_config_from_env(NoEnv)
    /\ urls = None
    /\ updater = NoUpdater
    /\ doc_table = <<>>
    /\ migration_log = <<>>
    /\ migrator = NoMigrator
    /\ target = <<>>
    /\ analysis = None

FolderCall ==
    /\ calls = 0
    /\ \E ps \in FolderProjectLists, ds \in FolderDocLists : Call(ps, ds)

NextFolders ==
    \/ FolderCall
    \/ SkipProject
    \/ MapProjectNoFault
    \/ Return

SpecFolders == InitFolders /\ [][NextFolders]_vars

\* the numbered-suffix candidates of a name, raw and sanitized
NumberedCandidates(name) ==
    { Root \o n \o " (" \o Digits[i] \o ")" :
        n \in {name, sanitize_project_name(name)}, i \in 1..9 }

\* the project at position i is resolved to one of its numbered-suffix candidates
ResolvedToNumbered(i) ==
    /\ projects[i].id \in DOMAIN project_path_map
    /\ project_path_map[projects[i].id] \in NumberedCandidates(projects[i].project_name)

\* C25 as stated: with an error-free prefix check no project is ever
\* resolved to a numbered-suffix candidate.
C25_NeverResolvedToNumbered ==
    \A i \in 1..Len(projects) : ~ResolvedToNumbered(i)

\* the unsuffixed path of the name is the fallback folder, which the first
\* pass does not probe
UnsuffixedIsFallback(name) ==
    name = MailroomName \/ sanitize_project_name(name) = MailroomName

\* C25, amended: with an error-free prefix check no project is resolved to
\* a numbered-suffix candidate, unless its name or its sanitized name is the
\* name of the fallback folder: for every other project a store in which a
\* numbered candidate exists makes the unsuffixed path of the same name
\* exist, which is probed earlier.
C25_NumberedOnlyUnderFallbackName ==
    \A i \in 1..Len(projects) :
        ResolvedToNumbered(i) => UnsuffixedIsFallback(projects[i].project_name)

\* the bucket holds only the numbered duplicate "Foo (1)" and project Foo
\* is resolved to the unsuffixed "Foo"
C25_Witness ==
    /\ pc = "returned"
    /\ store = {NumberedPath(NameF, 1) \o Object}
    /\ \E i \in 1..Len(projects) :
          /\ projects[i].project_name = NameF
          /\ projects[i].id \in DOMAIN project_path_map
          /\ project_path_map[projects[i].id] = Root \o NameF

\* C26 as stated: a project is resolved to a non-fallback path P only if
\* the store holds a key that starts with P followed by "/".
C26_ResolvedFolderHoldsAnObject ==
    \A pid \in DOMAIN project_path_map :
        project_path_map[pid] # mailroom_path =>
            \E k \in store : IsPrefix(project_path_map[pid] \o "/", k)

\* C26, amended: a project is resolved to a non-fallback path P only if the
\* store holds a key that starts with P; what follows P in the key is not
\* looked at, so the objects of a sibling folder whose name begins with the
\* candidate name do resolve the project to P.
C26_ResolvedPathBeginsAKey ==
    \A pid \in DOMAIN project_path_map :
        project_path_map[pid] # mailroom_path =>
            \E k \in store : /\ Len(project_path_map[pid]) <= Len(k)
                             /\ \A c \in 1..Len(project_path_map[pid]) :
                                   SubSeq(k, c, c) = SubSeq(project_path_map[pid], c, c)

\* the bucket holds only root/Foobar/x.pdf and project Foo is resolved to root/Foo
C26_Witness ==
    /\ pc = "returned"
    /\ store = {Root \o NameFoobar \o Object}
    /\ \E pid \in DOMAIN project_path_map : project_path_map[pid] = Root \o NameF

\* the paths the reconciler can give a project of that name, the fallback
\* folder aside: the name and the sanitized name, bare, numbered 1 to 9, and
\* behind "Solar - " and "Solar - PNC "
PathsOfName(name) ==
    LET names == {name, sanitize_project_name(name)}
    IN  ({ Root \o n : n \in names }
         \cup { Root \o n \o " (" \o Digits[i] \o ")" : n \in names, i \in 1..9 }
         \cup { Root \o "Solar - " \o n : n \in names }
         \cup { Root \o "Solar - PNC " \o n : n \in names }) \ {mailroom_path}

\* C27: after a run on a fresh mapper every key of the mapping is the id of
\* a project of the project list, whatever project ids the documents name,
\* and its value is the fallback folder or a non-fallback candidate path
\* generated from the name of a project with that id.
C27_KeysAreListedProjects ==
    (pc = "returned" /\ calls = 1) =>
        \A pid \in DOMAIN project_path_map :
            \E i \in 1..Len(projects) :
                /\ projects[i].id = pid
                /\ project_path_map[pid] \in
                       {mailroom_path} \cup PathsOfName(projects[i].project_name)

\* a run has mapped a project while a document with a filename names a
\* project id that is not in the project list
C27_Witness ==
    /\ pc = "returned"
    /\ calls = 1
    /\ DOMAIN project_path_map # {}
    /\ \E j \in 1..Len(doc_records) :
          /\ HasFilename(doc_records[j])
          /\ \E p \in doc_records[j].project_id :
                /\ p # 0
                /\ \A i \in 1..Len(projects) : projects[i].id # p

(***************************************************************************)
(* run_mapping_analysis: a fresh mapper, the grouping of the documents,    *)
(* one build_project_mapping call on a store whose requests do not fail,   *)
(* and the figures the analysis reports.                                   *)
(***************************************************************************)
\* lines 93-101: the project ids of docs_by_project
DocsByProjectKeys(docs) ==
    { Val(docs[i].project_id) : i \in { j \in 1..Len(docs) : HasProjectId(docs[j]) } }

\* lines 103-131: the figures of the report, from the mapping the call returned
mapping_analysis(ps, docs, project_gcs_map) ==
    LET docs_with_filenames == GroupDocs(docs)
        projects_with_docs_and_filenames == DOMAIN docs_with_filenames
        projects_with_no_docs ==
            { ps[i].id : i \in { j \in 1..Len(ps) : ps[j].id \notin DocsByProjectKeys(docs) } }
        projects_with_docs_no_filenames ==
            { ps[i].id : i \in { j \in 1..Len(ps) :
                                   /\ ps[j].id \in DocsByProjectKeys(docs)
                                   /\ ps[j].id \notin DOMAIN docs_with_filenames } }
        mapping_stats == get_mapping_stats(project_gcs_map)
        mapped_project_ids == DOMAIN project_gcs_map
    IN  [projects_with_docs_and_filenames |-> Cardinality(projects_with_docs_and_filenames),
         total_projects_mapped |-> mapping_stats.total_projects_mapped,
         unique_paths |-> mapping_stats.unique_paths,
         projects_with_no_docs |-> Cardinality(projects_with_no_docs),
         projects_with_docs_no_filenames |-> Cardinality(projects_with_docs_no_filenames),
         truly_unmapped_ids |-> projects_with_docs_and_filenames \ mapped_project_ids]

\* lines 115-131, once build_project_mapping has returned
ReportAnalysis ==
    /\ pc = "returned"
    /\ analysis = None
    /\ analysis' = Some(mapping_analysis(projects, doc_records, project_path_map))
    /\ UNCHANGED mapper_vars
    /\ UNCHANGED <<environ, config, urls, updater, doc_table, migration_log,
                   migrator, target>>

NextAnalysis ==
    \/ FirstCall
    \/ SkipProject
    \/ MapProjectNoFault
    \/ Return
    \/ ReportAnalysis

SpecAnalysis == Init /\ [][NextAnalysis]_vars

\* C30: every id the analysis counts as truly unmapped is the id of a
\* project of the project list that has qualifying documents and no mapping
\* entry, and the projects mapped plus the truly unmapped are as many as
\* the reported projects with documents and filenames.
C30_TrulyUnmappedAreListedProjects ==
    \A a \in analysis :
        /\ \A id \in a.truly_unmapped_ids :
              /\ \E i \in 1..Len(projects) : projects[i].id = id
              /\ QualifyingDocs(id) # <<>>
              /\ id \notin DOMAIN project_path_map
        /\ a.total_projects_mapped + Cardinality(a.truly_unmapped_ids)
               = a.projects_with_docs_and_filenames

====
